---- MODULE Spec2Model ----
(***************************************************************************)
(* A model of bashistdb's history store (package database): the history    *)
(* table with its (user, command, datetime) primary key and SQLite rowids, *)
(* the insert paths AddRecord and AddFromBuffer, row deletion, the queries  *)
(* TopK, LastK, DefaultQuery, Demo, ReturnRow and the context query, the    *)
(* schema version and its migration (database.New), and the renderer of     *)
(* query results (package result) with the export format read back by       *)
(* AddFromBuffer.                                                           *)
(***************************************************************************)
EXTENDS Integers, Sequences, FiniteSets, TLC

\* ------------------------------------------------------------------ bounds
NumUsers == 2
NumHosts == 1
NumCmds == 2
MaxTime == 2
MaxBatchLen == 2
MaxRowid == 3
MaxKappa == 2

Users == 1..NumUsers
Hosts == 1..NumHosts
Commands == 1..NumCmds
Times == 1..MaxTime

\* ------------------------------------------------------------- the table
\* history:    the rows of table history in the database file
\* last:       the last call on the database, its arguments and what it gave
\* delNotLast: the rowids deleted while a row with a higher rowid was in the
\*             table, and not given to a new row since
\* schema:     the rest of the database file: the version in table admin, the
\*             tables and views of the file and the rows of table connlog
\* render:     a result.Result being filled, with conf.QParams.Format beside it
\* flags:      the command line of a run and what package configuration made
\*             of it
\* net:        the server: its connections, their goroutines and the
\*             transactions they hold on the database file
VARIABLES history, last, delNotLast, schema, render, flags, net
vars == <<history, last, delNotLast, schema, render, flags, net>>

\* the rows of table history; rowid is SQLite's implicit integer key
HistoryRow(id, u, h, c, t) ==
  [rowid |-> id, user |-> u, host |-> h, command |-> c, datetime |-> t]

Rowids(tbl) == {r.rowid : r \in tbl}

SetMax(S) == CHOOSE m \in S : \A x \in S : x <= m

\* numbering by the count of rows
NextRowidByCount(tbl) == Cardinality(tbl) + 1

\* numbering that fills the first gap
NextRowidFirstFree(tbl) == CHOOSE n \in 1..(Cardinality(tbl) + 1) : n \notin Rowids(tbl)

\* a table without AUTOINCREMENT: the next rowid is one more than the
\* largest rowid in the table, 1 for an empty table
NextRowid(tbl) == IF tbl = {} THEN 1 ELSE SetMax(Rowids(tbl)) + 1

\* a key that tells the rows of two hosts apart
NaturalKeyWithHost(r) == <<r.user, r.host, r.command, r.datetime>>

\* PRIMARY KEY (user, command, datetime): the columns that make the key of a
\* row
NaturalKey(r) == <<r.user, r.command, r.datetime>>

\* PRIMARY KEY (user, command, datetime)
SameKey(r, u, c, t) == r.user = u /\ r.command = c /\ r.datetime = t

\* an insert into a table without the primary key
InsertNoKey(tbl, u, h, c, t) ==
  [err |-> "nil", tbl |-> tbl \cup {HistoryRow(NextRowid(tbl), u, h, c, t)}]

\* one execution of the prepared INSERT statement
Insert(tbl, u, h, c, t) ==
  IF \E r \in tbl : NaturalKey(r) = NaturalKey(HistoryRow(0, u, h, c, t))
    THEN [err |-> "ErrConstraintPrimaryKey", tbl |-> tbl]
    ELSE [err |-> "nil", tbl |-> tbl \cup {HistoryRow(NextRowid(tbl), u, h, c, t)}]

\* ------------------------------------------------------ lines of a batch
\* The text of a timestamp field: 24 characters of [0-9T:+-].  Stamp t is
\* the RFC3339alt text of time t, BadStamp is text time.Parse rejects.
BadStamp == 0
Stamps == Times \cup {BadStamp}

Line(s, u, h, ts, c) == [shape |-> s, user |-> u, host |-> h, ts |-> ts, cmd |-> c]

\* the stamps and commands that lines carry; the command of a line with a
\* bad stamp is never looked at, one such line per shape and origin is enough
LineFields == (Times \X Commands) \cup {<<BadStamp, 1>>}

HistLines == {Line("history", 0, 0, f[1], f[2]) : f \in LineFields}
ExportLines ==
  UNION {{Line("export", u, h, f[1], f[2]) : f \in LineFields} : u \in Users, h \in Hosts}
EmptyLine == Line("empty", 0, 0, 0, 0)
JunkLine == Line("junk", 0, 0, 0, 0)
Lines == HistLines \cup ExportLines \cup {EmptyLine, JunkLine}

\* regexp parseLine: LINENUM RFC3339_DATETIME COMMAND, submatches 0..2
parseLine(l) == IF l.shape = "history" THEN <<l, l.ts, l.cmd>> ELSE <<>>

\* regexp parseExportLine: USER HOSTNAME RFC3339_DATETIME COMMAND
parseExportLine(l) ==
  IF l.shape = "export" THEN <<l, l.user, l.host, l.ts, l.cmd>> ELSE <<>>

\* time.Parse(RFC3339alt, s)
ParseTime(s) ==
  IF s = BadStamp THEN [err |-> "parse", time |-> 0] ELSE [err |-> "nil", time |-> s]

\* Go's args[i] on a slice, indexed from 0
At(args, i) == args[i + 1]

\* A batch is what the reader delivers: its lines, and whether the last of
\* them ends with a newline.
BatchOK(b) ==
  /\ (b.lines = <<>> => b.term)
  /\ (~b.term => b.lines[Len(b.lines)].shape # "empty")

Batches ==
  {b \in [lines : UNION {[1..n -> Lines] : n \in 0..MaxBatchLen}, term : BOOLEAN] :
     BatchOK(b)}

\* r.ReadString('\n') until io.EOF: every line that ends with a newline comes
\* with a nil error, the rest of the input comes with io.EOF
NumReads(b) == IF b.term THEN Len(b.lines) ELSE Len(b.lines) - 1

\* ------------------------------------------------------- AddFromBuffer
\* the locals of AddFromBuffer while it reads: the transaction's view of the
\* table, the counters, the line format and how the call has ended so far
LoopState(tbl) ==
  [tbl |-> tbl, total |-> 0, failed |-> 0, lineFormat |-> 1, status |-> "ok"]

\* a line of unknown format ends the call
OnUnknownFormatAbort(st) == [st EXCEPT !.status = "error"]

\* neither regexp matches: the line is counted as failed and skipped
OnUnknownFormat(st) == [st EXCEPT !.failed = @ + 1]

\* time.Parse fails: tx.Rollback() and return the error
OnBadTime(st, tbl0) == [st EXCEPT !.tbl = tbl0, !.status = "error"]

\* a primary key violation returned to the caller like any other error
OnDuplicateFatal(st) == [st EXCEPT !.status = "error"]

\* the insert fails on the primary key: the line is counted as failed
OnDuplicate(st) == [st EXCEPT !.failed = @ + 1]

\* args[lineFormat] with lineFormat past the end of args: index out of
\* range, the goroutine panics and the open transaction is never committed
OnIndexOutOfRange(st, tbl0) == [st EXCEPT !.tbl = tbl0, !.status = "panic"]

\* the format used for a line: the variable is set to 3 when the export
\* regexp matches and is left as it is when the history regexp matches
LineFormatAfter(st, isHist) == IF isHist THEN st.lineFormat ELSE 3

\* the body of the loop for one line read with a nil error
ProcessLine(st, l, user, host, tbl0) ==
  LET st1 == [st EXCEPT !.total = @ + 1]
      hist == parseLine(l)
      isHist == Len(hist) = 3
      args == IF isHist THEN hist ELSE parseExportLine(l)
  IN IF ~isHist /\ Len(args) # 5 THEN OnUnknownFormat(st1)
     ELSE
       LET lf == LineFormatAfter(st1, isHist)
           st2 == [st1 EXCEPT !.lineFormat = lf]
       IN IF lf >= Len(args) THEN OnIndexOutOfRange(st2, tbl0)
          ELSE
            LET pt == ParseTime(At(args, lf))
            IN IF pt.err # "nil" THEN OnBadTime(st2, tbl0)
               ELSE
                 LET ins == IF lf = 1
                              THEN Insert(st2.tbl, user, host, At(args, 2), pt.time)
                              ELSE Insert(st2.tbl, At(args, 1), At(args, 2),
                                          At(args, 4), pt.time)
                 IN IF ins.err = "nil" THEN [st2 EXCEPT !.tbl = ins.tbl]
                    ELSE OnDuplicate(st2)

RECURSIVE ReadLoop(_, _, _, _, _, _)
\* the for loop: line i of the batch is read next
ReadLoop(st, b, i, user, host, tbl0) ==
  IF st.status # "ok" THEN st
  ELSE IF i > NumReads(b) THEN [st EXCEPT !.total = @ + 1]  \* the read that hits io.EOF
  ELSE ReadLoop(ProcessLine(st, b.lines[i], user, host, tbl0), b, i + 1, user, host, tbl0)

\* the end of the call without the total-- that takes back the last read
FinishNoDecrement(st) == st

\* after the loop: tx.Commit(), total--, and the stats sentence
Finish(st) == IF st.status = "ok" THEN [st EXCEPT !.total = @ - 1] ELSE st

\* AddFromBuffer(r, user, host) on table tbl
RunAddFromBuffer(tbl, b, user, host) ==
  Finish(ReadLoop(LoopState(tbl), b, 1, user, host, tbl))

\* ------------------------------------------------------------- Delete
RECURSIVE DeleteRows(_, _)
\* DELETE of the given rowids in one transaction, highest rowid first; a
\* rowid that is not in the table deletes nothing and is no error
DeleteRows(tbl, rows) ==
  IF rows = {} THEN tbl
  ELSE LET m == SetMax(rows)
       IN DeleteRows({r \in tbl : r.rowid # m}, rows \ {m})

\* the rowids of rows that a Delete removes while a row with a higher rowid
\* is still in the table
DeletedNotLast(tbl, rows) ==
  {id \in rows \cap Rowids(tbl) : \E r \in tbl : r.rowid > id /\ r.rowid \notin rows}

\* ------------------------------------------------------------ queries
\* the LIKE patterns of a query: the wildcard % or a literal
Wild == 0
Like(pattern, value) == pattern = Wild \/ pattern = value

\* WHERE user LIKE ? AND host LIKE ? AND command LIKE ?
Matching(tbl, qp) ==
  {r \in tbl : Like(qp.User, r.user) /\ Like(qp.Host, r.host) /\ Like(qp.Command, r.command)}

\* count(*) of GROUP BY command
CountOf(rows, c) == Cardinality({r \in rows : r.command = c})

\* a limit that lets one row too many through
LimitOffByOne(k, n) == IF k < 0 THEN n ELSE IF k + 1 < n THEN k + 1 ELSE n

\* LIMIT k: a negative k is no limit
Limit(k, n) == IF k < 0 THEN n ELSE IF k < n THEN k ELSE n

\* SELECT command, count(*) ... GROUP BY command ORDER BY count DESC LIMIT k:
\* every order the engine may give rows of equal count
TopKRows(tbl, qp) ==
  LET m == Matching(tbl, qp)
      groups == {r.command : r \in m}
      n == Limit(qp.Kappa, Cardinality(groups))
      picks == {s \in [1..n -> groups] :
                  /\ \A i, j \in 1..n : i # j => s[i] # s[j]
                  /\ \A i, j \in 1..n : i < j => CountOf(m, s[i]) >= CountOf(m, s[j])
                  /\ \A i \in 1..n : \A g \in groups :
                       (\A j \in 1..n : s[j] # g) => CountOf(m, g) <= CountOf(m, s[i])}
  IN {[i \in 1..n |-> [count |-> CountOf(m, s[i]), command |-> s[i]]] : s \in picks}

\* the query with the error of Scan dropped
SelectCommandNoError(tbl, kappa) ==
  IF \E r \in tbl : r.rowid = kappa
    THEN [err |-> "nil", res |-> <<(CHOOSE r \in tbl : r.rowid = kappa).command>>]
    ELSE [err |-> "nil", res |-> <<>>]

\* SELECT command FROM history WHERE rowid = ?; Scan gives sql.ErrNoRows
\* when no row has that rowid
SelectCommand(tbl, kappa) ==
  IF \E r \in tbl : r.rowid = kappa
    THEN [err |-> "nil", res |-> <<(CHOOSE r \in tbl : r.rowid = kappa).command>>]
    ELSE [err |-> "ErrNoRows", res |-> <<>>]

\* ------------------------------------------------- schema and migration
\* the schema version this code supports
VERSION == "2"

\* the versions a database file may carry: the two the code knows, a newer
\* one, and a file whose table admin has no version row
NewerVersion == "3"
NoVersion == "none"
FileVersions == {"1", VERSION, NewerVersion, NoVersion}

\* the tables and views of a file of version 1, and those of version 2
TablesV1 == {"history", "admin", "connlog"}
TablesV2 == TablesV1 \cup {"rlookup", "connections"}

\* the file apart from table history: connlog is the sequence of the
\* datetimes of its rows
DBFile(v, tbls, log) == [version |-> v, tables |-> tbls, connlog |-> log]

\* os.Stat finds no file
NoFile == DBFile("absent", {}, <<>>)

\* CREATE TABLE history, admin, connlog, rlookup, CREATE VIEW connections and
\* INSERT INTO admin VALUES ("version", VERSION)
initDB == DBFile(VERSION, TablesV2, <<>>)

\* datetime TEXT PRIMARY KEY of connlog_new: the copy of connlog fails when
\* two of its rows have the same datetime
CopyFails(log) == \E i, j \in 1..Len(log) : i # j /\ log[i] = log[j]

\* the steps of the migration of version 1: d.Begin(), the six statements of
\* the first tx.Exec, the UPDATE of the second tx.Exec, tx.Commit()
MigrationSteps ==
  <<"Begin", "CREATE TABLE connlog_new", "INSERT INTO connlog_new", "DROP TABLE connlog",
    "ALTER TABLE connlog_new RENAME", "CREATE TABLE rlookup", "CREATE VIEW connections",
    "UPDATE admin", "Commit">>

\* what the transaction sees: the file, and the rows of connlog_new
Work(f) ==
  [version |-> f.version, tables |-> f.tables, connlog |-> f.connlog, connlog_new |-> <<>>]

\* the error of step k on its own account: a table that exists already, a
\* second row of the same datetime
StepErr(w, k) ==
  CASE k = 2 /\ "connlog_new" \in w.tables -> "table connlog_new already exists"
    [] k = 3 /\ CopyFails(w.connlog) -> "ErrConstraint"
    [] k = 6 /\ "rlookup" \in w.tables -> "table rlookup already exists"
    [] OTHER -> "nil"

\* what step k changes in the view of the transaction
StepDo(w, k) ==
  CASE k = 2 -> [w EXCEPT !.tables = @ \cup {"connlog_new"}]
    [] k = 3 -> [w EXCEPT !.connlog_new = w.connlog]
    [] k = 4 -> [w EXCEPT !.tables = @ \ {"connlog"}, !.connlog = <<>>]
    [] k = 5 -> [w EXCEPT !.tables = (@ \ {"connlog_new"}) \cup {"connlog"},
                          !.connlog = w.connlog_new, !.connlog_new = <<>>]
    [] k = 6 -> [w EXCEPT !.tables = @ \cup {"rlookup"}]
    [] k = 7 -> [w EXCEPT !.tables = @ \cup {"connections"}]
    [] k = 8 -> [w EXCEPT !.version = VERSION]
    [] OTHER -> w

RECURSIVE RunTx(_, _, _)
\* the steps from k on; step failAt fails on the side of the system (disk,
\* lock), every failure is returned at once
RunTx(w, k, failAt) ==
  IF k > Len(MigrationSteps) THEN [err |-> "nil", work |-> w]
  ELSE IF k = failAt THEN [err |-> "disk I/O error", work |-> w]
  ELSE IF StepErr(w, k) # "nil" THEN [err |-> StepErr(w, k), work |-> w]
  ELSE RunTx(StepDo(w, k), k + 1, failAt)

\* the file as the transaction sees it
Seen(w) == DBFile(w.version, w.tables, w.connlog)

\* a file that keeps what the statements did before the failure
NotCommittedKept(f, w) == Seen(w)

\* migrate returns the error without tx.Commit(): the file is as it was when
\* the transaction began
NotCommitted(f, w) == f

\* a migration that sets the version whether or not its statements ran
migrateAlways(f, failAt) ==
  IF f.version = "1"
    THEN [err |-> "nil", file |-> DBFile(VERSION, TablesV2, f.connlog)]
    ELSE [err |-> "nil", file |-> [f EXCEPT !.version = VERSION]]

\* migrate: version 1 is brought to VERSION inside one transaction, which is
\* never committed when a statement of it fails; VERSION is left alone; any
\* other version, and a file without a version row, is an error
migrate(f, failAt) ==
  IF f.version = NoVersion THEN [err |-> "ErrNoRows", file |-> f]
  ELSE IF f.version = "1"
    THEN LET tx == RunTx(Work(f), 1, failAt)
         IN IF tx.err # "nil"
              THEN [err |-> tx.err, file |-> NotCommitted(f, tx.work)]
              ELSE [err |-> "nil", file |-> Seen(tx.work)]
  ELSE IF f.version # VERSION
    THEN [err |-> "Database version different than code version but couldn't fix it.",
          file |-> f]
  ELSE [err |-> "nil", file |-> f]

\* database.New: initDB for a file that does not exist, migrate for one
\* that does
OpenFile(f, failAt) ==
  IF f = NoFile THEN [err |-> "nil", file |-> initDB] ELSE migrate(f, failAt)

\* no result.Result is being filled
NoResult == [format |-> "", conf |-> "", out |-> <<>>, written |-> FALSE,
             entries |-> <<>>, rows |-> <<>>, done |-> FALSE]

\* ------------------------------------------------------------- actions
\* no command line has been parsed, no server is listening
NoFlags == [op |-> "none"]
NoNet == [op |-> "none"]

NoBatch == [lines |-> <<>>, term |-> TRUE]

\* what the last call was given and what it returned; pre is the table the
\* call started from
Call(op) ==
  [op |-> op, user |-> 0, host |-> 0, command |-> 0, time |-> 0, batch |-> NoBatch,
   rows |-> {}, kappa |-> 0, status |-> "ok", total |-> 0, failed |-> 0,
   res |-> <<>>, pre |-> history, reused |-> {}, unique |-> FALSE,
   before |-> 0, after |-> 0]

NewIds(tbl) == Rowids(tbl) \ Rowids(history)

\* the database has been opened and no call has been made on it yet
Opened == last.op = "New"

\* database.New() on a file that does not exist yet
Init ==
  /\ history = {}
  /\ last = [Call("New") EXCEPT !.pre = {}]
  /\ delNotLast = {}
  /\ schema = initDB
  /\ render = NoResult
  /\ flags = NoFlags
  /\ net = NoNet

\* the run ends after its one operation (local.Run), and the next run opens
\* the same file with database.New(): the schema version is current and the
\* tables are left as they are
New ==
  /\ ~Opened
  /\ last' = Call("New")
  /\ UNCHANGED <<history, delNotLast, schema, render, flags, net>>

\* what an inserting call leaves behind
Stored(tbl, call) ==
  /\ \A id \in Rowids(tbl) : id <= MaxRowid
  /\ history' = tbl
  /\ last' = [call EXCEPT !.reused = NewIds(tbl) \cap delNotLast]
  /\ delNotLast' = delNotLast \ NewIds(tbl)
  /\ UNCHANGED <<schema, render, flags, net>>

\* what AddRecord returns for the error of its insert: a primary key
\* violation is logged and ignored
AddRecordErr(err) ==
  IF err = "nil" \/ err = "ErrConstraintPrimaryKey" THEN "ok" ELSE "error"

AddRecord ==
  /\ Opened
  /\ \E u \in Users, h \in Hosts, c \in Commands, t \in Times :
    LET ins == Insert(history, u, h, c, t)
    IN Stored(ins.tbl, [Call("AddRecord") EXCEPT !.user = u, !.host = h,
                           !.command = c, !.time = t,
                           !.status = AddRecordErr(ins.err)])

AddFromBuffer ==
  /\ Opened
  /\ \E b \in Batches, u \in Users, h \in Hosts :
    LET st == RunAddFromBuffer(history, b, u, h)
    IN Stored(st.tbl, [Call("AddFromBuffer") EXCEPT !.batch = b, !.user = u, !.host = h,
                          !.status = st.status, !.total = st.total,
                          !.failed = st.failed])

Delete ==
  /\ Opened
  /\ \E rows \in SUBSET (1..(MaxRowid + 1)) :
    /\ history' = DeleteRows(history, rows)
    /\ last' = [Call("Delete") EXCEPT !.rows = rows]
    /\ delNotLast' = delNotLast \cup DeletedNotLast(history, rows)
    /\ UNCHANGED <<schema, render, flags, net>>

\* the parameters of a query
QueryParams ==
  [User : Users \cup {Wild}, Host : Hosts \cup {Wild}, Command : Commands \cup {Wild},
   Kappa : (-1)..MaxKappa]

TopK ==
  /\ Opened
  /\ \E qp \in QueryParams : \E res \in TopKRows(history, qp) :
    /\ last' = [Call("TopK") EXCEPT !.user = qp.User, !.host = qp.Host,
                  !.command = qp.Command, !.kappa = qp.Kappa, !.res = res]
    /\ UNCHANGED <<history, delNotLast, schema, render, flags, net>>

ReturnRow ==
  /\ Opened
  /\ \E kappa \in 0..(MaxRowid + 1) :
    LET q == SelectCommand(history, kappa)
    IN /\ last' = [Call("ReturnRow") EXCEPT !.kappa = kappa, !.res = q.res,
                     !.status = IF q.err = "nil" THEN "ok" ELSE "error"]
       /\ UNCHANGED <<history, delNotLast, schema, render, flags, net>>

Next == New \/ AddRecord \/ AddFromBuffer \/ Delete \/ TopK \/ ReturnRow

Spec == Init /\ [][Next]_vars

\* ------------------------------------------------- LastK and DefaultQuery
\* the stores the queries are run on: up to QMaxRows rows of QNumUsers
\* users on QNumHosts hosts
QNumUsers == 2
QNumHosts == 2
QNumCmds == 2
QMaxTime == 2
QMaxRows == 3
QMaxKappa == 2

\* every table of at most n rows over the given users, hosts, commands, times
\* and rowids that INSERT and DELETE can leave behind: no two rows with the
\* same rowid, no two with the same (user, command, datetime)
RECURSIVE TablesOf(_, _, _, _, _, _)
TablesOf(U, H, C, T, ids, n) ==
  IF n = 0 THEN {{}}
  ELSE LET prev == TablesOf(U, H, C, T, ids, n - 1)
           rows == {HistoryRow(id, u, h, c, t) : id \in ids, u \in U, h \in H, c \in C, t \in T}
       IN prev \cup {p[1] \cup {p[2]} :
                      p \in {q \in prev \X rows :
                               /\ q[2].rowid \notin Rowids(q[1])
                               /\ ~\E r \in q[1] : SameKey(r, q[2].user, q[2].command, q[2].datetime)}}

QueryTables ==
  TablesOf(1..QNumUsers, 1..QNumHosts, 1..QNumCmds, 1..QMaxTime, 1..QMaxRows, QMaxRows)

\* the parameters of LastK and DefaultQuery
UniqueParams ==
  [User : (1..QNumUsers) \cup {Wild}, Host : (1..QNumHosts) \cup {Wild},
   Command : (1..QNumCmds) \cup {Wild}, Kappa : (-1)..QMaxKappa, Unique : BOOLEAN]

\* the commands of a set of rows
Groups(rows) == {r.command : r \in rows}

\* grouping that keeps every row
GroupByCommandAll(rows) == {rows}

\* GROUP BY command with the bare columns rowid, *: one row for every
\* command, its columns taken from one row of the group, which one is the
\* engine's choice; every set of rows the engine may give
GroupByCommand(rows) ==
  {{f[c] : c \in Groups(rows)} :
     f \in {g \in [Groups(rows) -> rows] : \A c \in Groups(rows) : g[c].command = c}}

\* ORDER BY datetime DESC LIMIT n: every set of n rows the engine may keep
TopByTime(rows, n) ==
  {S \in SUBSET rows :
     /\ Cardinality(S) = n
     /\ \A x \in S, y \in rows \ S : x.datetime >= y.datetime}

\* ORDER BY datetime ASC: every order the engine may give rows of equal
\* datetime
AscByTime(S) ==
  {s \in [1..Cardinality(S) -> S] :
     /\ \A i, j \in 1..Cardinality(S) : i # j => s[i] # s[j]
     /\ \A i, j \in 1..Cardinality(S) : i < j => s[i].datetime <= s[j].datetime}

\* the rows of LastK's query
LastKRows(tbl, qp) ==
  LET m == Matching(tbl, qp)
      cands == IF qp.Unique THEN GroupByCommand(m) ELSE {m}
  IN UNION {UNION {AscByTime(S) : S \in TopByTime(R, Limit(qp.Kappa, Cardinality(R)))} :
              R \in cands}

\* the call of a query with its parameters
QueryCall(op, qp) ==
  [Call(op) EXCEPT !.user = qp.User, !.host = qp.Host, !.command = qp.Command]

\* a store with rows in it, opened by database.New()
QueryInit ==
  /\ history \in QueryTables
  /\ last = Call("New")
  /\ delNotLast = {}
  /\ schema = initDB
  /\ render = NoResult
  /\ flags = NoFlags
  /\ net = NoNet

LastK ==
  /\ Opened
  /\ \E qp \in UniqueParams : \E res \in LastKRows(history, qp) :
    /\ last' = [QueryCall("LastK", qp) EXCEPT !.kappa = qp.Kappa,
                  !.unique = qp.Unique, !.res = res]
    /\ UNCHANGED <<history, delNotLast, schema, render, flags, net>>

\* the zero time.Time, left in a variable that Scan did not set
ZeroTime == -1

\* a time.Time column scanned into a string: Format(time.RFC3339Nano)
TimeText(t) == <<"RFC3339Nano", t>>

\* rows.Scan(&row, &user, &host, &command, &t) on the columns rowid, user,
\* host, command, datetime of SELECT rowid, *
ScanStar(r) == r

\* rows.Scan(&row, &user, &host, &command, &t) on the columns rowid,
\* datetime, user, host, command: the datetime goes to user, the user to
\* host, the host to command; the command is no time, Scan returns an error
\* that is dropped, and t keeps the zero time
ScanUnique(r) ==
  [rowid |-> r.rowid, user |-> TimeText(r.datetime), host |-> r.user,
   command |-> r.host, datetime |-> ZeroTime]

\* a query without ORDER BY: every order of its rows
AnyOrder(S) ==
  {s \in [1..Cardinality(S) -> S] : \A i, j \in 1..Cardinality(S) : i # j => s[i] # s[j]}

\* the arguments of the AddRow calls of DefaultQuery
DefaultQueryRows(tbl, qp) ==
  LET m == Matching(tbl, qp)
  IN IF qp.Unique
       THEN UNION {{[i \in 1..Len(s) |-> ScanUnique(s[i])] : s \in AscByTime(R)} :
                     R \in GroupByCommand(m)}
       ELSE {[i \in 1..Len(s) |-> ScanStar(s[i])] : s \in AnyOrder(m)}

\* DefaultQuery takes no kappa
SearchParams == {qp \in UniqueParams : qp.Kappa = 0}

DefaultQuery ==
  /\ Opened
  /\ \E qp \in SearchParams : \E res \in DefaultQueryRows(history, qp) :
    /\ last' = [QueryCall("DefaultQuery", qp) EXCEPT !.unique = qp.Unique, !.res = res]
    /\ UNCHANGED <<history, delNotLast, schema, render, flags, net>>

\* the kappa Demo gives TopK, and the one it gives LastK
DemoTopKappa == 15
DemoLastKappa == 10

\* count(*) of SELECT distinct(user) FROM history
DemoNumUsersByName(tbl) == Cardinality({r.user : r \in tbl})

\* count(*) of SELECT distinct(user), host FROM history: DISTINCT is over
\* both columns
DemoNumUsers(tbl) == Cardinality({<<r.user, r.host>> : r \in tbl})

\* count(distinct(host))
DemoNumHosts(tbl) == Cardinality({r.host : r \in tbl})

\* count(command): no command is NULL
DemoNumLines(tbl) == Cardinality(tbl)

\* count(distinct(command))
DemoNumUniqueLines(tbl) == Cardinality({r.command : r \in tbl})

\* every report Demo may give: the four counts of the whole table, the rows
\* of TopK with kappa 15 and those of LastK with kappa 10
DemoReports(tbl, qp) ==
  {[numLines |-> DemoNumLines(tbl), numUniqueLines |-> DemoNumUniqueLines(tbl),
    numUsers |-> DemoNumUsers(tbl), numHosts |-> DemoNumHosts(tbl),
    top |-> t, lastk |-> l] :
     t \in TopKRows(tbl, [qp EXCEPT !.Kappa = DemoTopKappa]),
     l \in LastKRows(tbl, [qp EXCEPT !.Kappa = DemoLastKappa])}

Demo ==
  /\ Opened
  /\ \E qp \in SearchParams : \E rep \in DemoReports(history, qp) :
    /\ last' = [QueryCall("Demo", qp) EXCEPT !.unique = qp.Unique, !.res = rep]
    /\ UNCHANGED <<history, delNotLast, schema, render, flags, net>>

QueryNext == LastK \/ DefaultQuery \/ Demo

SpecQuery == QueryInit /\ [][QueryNext]_vars

\* ------------------------------------------------------ opening a file
\* the files database.New() is run on: none, or one of any version with up
\* to OMaxLog rows in connlog and up to OMaxRows rows in history
OMaxLog == 2
OMaxRows == 2
OMaxTime == 2

\* the rows of connlog: version 1 has no key on datetime, the later
\* versions have
LogsV1 == UNION {[1..n -> 1..OMaxTime] : n \in 0..OMaxLog}
LogsV2 == {l \in LogsV1 : ~CopyFails(l)}

Files ==
  {NoFile}
    \cup {DBFile("1", TablesV1, l) : l \in LogsV1}
    \cup {DBFile(v, TablesV2, l) : v \in FileVersions \ {"1"}, l \in LogsV2}

\* no file has rows without having tables
OpenTables(f) ==
  IF f = NoFile THEN {{}}
  ELSE TablesOf(1..1, 1..1, 1..2, 1..OMaxTime, 1..OMaxRows, OMaxRows)

\* a file on disk and no handle on it
OpenInit ==
  /\ schema \in Files
  /\ history \in OpenTables(schema)
  /\ last = Call("none")
  /\ delNotLast = {}
  /\ render = NoResult
  /\ flags = NoFlags
  /\ net = NoNet

\* what New returns beside the error: Database{db, stmts}, or Database{}
Handle(err) == IF err = "nil" THEN "Database{db, stmts}" ELSE "Database{}"

\* a run of the program calls database.New() on the file as the last run
\* left it; failAt is the step of the migration at which the system fails,
\* 0 when it does not
NewOnFile ==
  \E failAt \in 0..Len(MigrationSteps) :
    LET o == OpenFile(schema, failAt)
    IN /\ schema' = o.file
       /\ last' = [Call("NewOnFile") EXCEPT
                     !.status = IF o.err = "nil" THEN "ok" ELSE "error",
                     !.kappa = failAt,
                     !.res = <<schema, Handle(o.err)>>]
       /\ UNCHANGED <<history, delNotLast, render, flags, net>>

OpenNext == NewOnFile

SpecOpen == OpenInit /\ [][OpenNext]_vars

\* ------------------------------------------------- Content-window query
\* the stores the Content-window query is run on, and its before and after
WNumUsers == 2
WNumCmds == 2
WMaxTime == 3
WMaxRows == 3
MaxContext == 2

WindowTables ==
  TablesOf(1..WNumUsers, 1..1, 1..WNumCmds, 1..WMaxTime, 1..WMaxRows, WMaxRows)

WindowParams ==
  [User : (1..WNumUsers) \cup {Wild}, Host : {Wild}, Command : (1..WNumCmds) \cup {Wild},
   Before : 0..MaxContext, After : 0..MaxContext]

\* the rows of the user/host filter: the scope the windows are cut from
Scope(tbl, qp) == {r \in tbl : Like(qp.User, r.user) /\ Like(qp.Host, r.host)}

\* rows in the store's scan order, the ascending order of rowid
ByRowid(S) ==
  CHOOSE s \in [1..Cardinality(S) -> S] :
    \A i, j \in 1..Cardinality(S) : i < j => s[i].rowid < s[j].rowid

\* match stage: the timestamps of the rows the Search filter matches, in scan
\* order
MatchTimes(tbl, qp) ==
  LET s == ByRowid(Matching(tbl, qp)) IN [i \in 1..Len(s) |-> s[i].datetime]

\* ORDER BY datetime ASC LIMIT n: every set of n rows the engine may keep
BottomByTime(rows, n) ==
  {S \in SUBSET rows :
     /\ Cardinality(S) = n
     /\ \A x \in S, y \in rows \ S : x.datetime <= y.datetime}

Ids(s) == [i \in 1..Len(s) |-> s[i].rowid]

\* window stage for the matched timestamp t: up to before+1 rows of the scope
\* with timestamp <= t, the most recent ones, in ascending order, then if
\* after > 0 up to after rows with timestamp > t in ascending order; every
\* list of rowids the store may give, rows of equal timestamp being in no
\* fixed order
WindowsAt(tbl, qp, t) ==
  LET upto == {r \in Scope(tbl, qp) : r.datetime <= t}
      later == {r \in Scope(tbl, qp) : r.datetime > t}
      heads == UNION {AscByTime(S) :
                        S \in TopByTime(upto, Limit(qp.Before + 1, Cardinality(upto)))}
      tails == IF qp.After > 0
                 THEN UNION {AscByTime(S) :
                               S \in BottomByTime(later, Limit(qp.After, Cardinality(later)))}
                 ELSE {<<>>}
  IN {Ids(h) \o Ids(tl) : h \in heads, tl \in tails}

\* every sequence that takes its i-th element from the i-th set
RECURSIVE Product(_)
Product(ss) ==
  IF ss = <<>> THEN {<<>>}
  ELSE {<<x>> \o rest : x \in Head(ss), rest \in Product(Tail(ss))}

\* the position of the first id of window i+1 in window i, 0 if it has none
SharedAt(w, next) ==
  IF \E p \in 1..Len(w) : w[p] = next[1]
    THEN CHOOSE p \in 1..Len(w) : w[p] = next[1] /\ \A q \in 1..(p - 1) : w[q] # next[1]
    ELSE 0

\* window i joined with window i+1 when it holds the first id of window
\* i+1: window i up to that id, then window i+1; window i+1 leaves the list
MergeAt(ws, i) ==
  LET p == SharedAt(ws[i], ws[i + 1])
  IN IF p = 0 THEN ws
     ELSE [k \in 1..(Len(ws) - 1) |->
             IF k < i THEN ws[k]
             ELSE IF k = i THEN SubSeq(ws[i], 1, p - 1) \o ws[i + 1]
             ELSE ws[k + 1]]

\* merge stage: from the second-to-last window to the first
RECURSIVE MergeFrom(_, _)
MergeFrom(ws, i) == IF i < 1 THEN ws ELSE MergeFrom(MergeAt(ws, i), i - 1)

Merge(ws) == MergeFrom(ws, Len(ws) - 1)

\* render stage: the rows of the window's identifier set in ascending order
\* of timestamp
Blocks(tbl, w) ==
  {Ids(s) : s \in AscByTime({r \in tbl : \E p \in 1..Len(w) : w[p] = r.rowid})}

\* every result of the Content-window query: the matched timestamps, the
\* windows built for them and the blocks rendered after the merge
ContentWindows(tbl, qp) ==
  LET times == MatchTimes(tbl, qp)
      lists == Product([i \in 1..Len(times) |-> WindowsAt(tbl, qp, times[i])])
  IN UNION {{[times |-> times, windows |-> ws, blocks |-> b] :
               b \in Product([i \in 1..Len(Merge(ws)) |-> Blocks(tbl, Merge(ws)[i])])} :
              ws \in lists}

WindowInit ==
  /\ history \in WindowTables
  /\ last = Call("New")
  /\ delNotLast = {}
  /\ schema = initDB
  /\ render = NoResult
  /\ flags = NoFlags
  /\ net = NoNet

ContentWindow ==
  /\ Opened
  /\ \E qp \in WindowParams : \E r \in ContentWindows(history, qp) :
    /\ last' = [QueryCall("ContentWindow", qp) EXCEPT !.before = qp.Before,
                  !.after = qp.After, !.res = r]
    /\ UNCHANGED <<history, delNotLast, schema, render, flags, net>>

WindowNext == ContentWindow

SpecWindow == WindowInit /\ [][WindowNext]_vars

\* -------------------------------------------------------- the renderer
\* the rows given to a Result: up to MaxRendered rows with rowids up to
\* RMaxRowid and times up to RMaxTime
RMaxRowid == 2
RMaxTime == 2
MaxRendered == 2

\* the output is a sequence of characters; a run of characters that is
\* written and read as one piece (a formatted time, a number, a marshalled
\* object) is one element of it
Char(c) == [k |-> "c", ch |-> c, n |-> 0]
Piece(kind, n) == [k |-> kind, ch |-> "", n |-> n]
NL == Char("\n")
SP == Char(" ")

\* datetime.Format(RFC3339alt): 24 characters of [0-9T:+-]
Stamp(t) == Piece("RFC3339alt", t)
\* %s of a time.Time
TimeString(t) == Piece("String", t)
\* %d of datetime.Unix()
UnixTime(t) == Piece("Unix", t)
\* %d and %05d of the rowid
Decimal(i) == Piece("%d", i)
Decimal5(i) == Piece("%05d", i)
\* json.Marshal(rowJson{...}): one JSON object
JsonObject(row) == Piece("json", row.rowid)

\* % 10s: padded with spaces on the left to ten characters
Pad10(str) == [i \in 1..(10 - Len(str)) |-> SP] \o str

\* the user names, host names and commands of the rendered rows: a user
\* name with a dot, a host name with a hyphen, a command of two words
RUsers == {<<Char("a")>>, <<Char("a"), Char(".")>>}
RHosts == {<<Char("a")>>, <<Char("a"), Char("-")>>}
RCommands == {<<Char("a")>>, <<Char("a"), SP, Char("a")>>}
RenderRows ==
  {HistoryRow(id, u, h, c, t) :
     id \in 1..RMaxRowid, u \in RUsers, h \in RHosts, c \in RCommands, t \in 1..RMaxTime}

FORMAT_BASH_HISTORY == "restore"
FORMAT_ALL == "all"
FORMAT_COMMAND_LINE == "command_line"
FORMAT_TIMESTAMP == "timestamp"
FORMAT_LOG == "log"
FORMAT_JSON == "json"
FORMAT_EXPORT == "export"
\* the formats of -format, and the empty format of a QueryParams that sets
\* none
Formats ==
  {FORMAT_BASH_HISTORY, FORMAT_ALL, FORMAT_COMMAND_LINE, FORMAT_TIMESTAMP, FORMAT_LOG,
   FORMAT_JSON, FORMAT_EXPORT, ""}

\* the switch of AddRow on r.format with the format strings FORMAT_*_S
FormatRow(format, row) ==
  CASE format = FORMAT_ALL ->
         <<Decimal5(row.rowid), SP, Char("|"), SP, TimeString(row.datetime), SP, Char("|"), SP>>
           \o Pad10(row.user) \o <<SP, Char("|"), SP>> \o Pad10(row.host)
           \o <<SP, Char("|"), SP>> \o row.command
    [] format = FORMAT_BASH_HISTORY ->
         <<Char("#"), UnixTime(row.datetime), NL>> \o row.command
    [] format = FORMAT_TIMESTAMP ->
         <<TimeString(row.datetime), Char(":"), SP>> \o row.command
    [] format = FORMAT_LOG ->
         <<Stamp(row.datetime), SP>> \o row.user \o <<Char("@")>> \o row.host
           \o <<SP>> \o row.command
    [] format = FORMAT_JSON -> <<JsonObject(row)>>
    [] format = FORMAT_EXPORT ->
         row.user \o <<SP>> \o row.host \o <<SP, Stamp(row.datetime), SP>> \o row.command
    [] OTHER -> <<Decimal(row.rowid), SP>> \o row.command

\* result.New(format), with conf.QParams.Format being conf: entries and rows
\* keep what AddRow was given
ResultNew(format, conf) ==
  [format |-> format, conf |-> conf,
   out |-> IF format = FORMAT_JSON THEN <<Char("["), NL>> ELSE <<>>,
   written |-> FALSE, entries |-> <<>>, rows |-> <<>>, done |-> FALSE]

\* what AddRow writes before the row when a row has been written before
Separator(r) ==
  IF r.written
    THEN IF r.format # FORMAT_JSON THEN <<NL>> ELSE <<Char(","), NL>>
    ELSE <<>>

\* r.AddRow(row, user, host, command, datetime)
AddRowTo(r, row) ==
  [r EXCEPT !.out = @ \o Separator(r) \o FormatRow(r.format, row),
            !.written = TRUE,
            !.entries = Append(@, FormatRow(r.format, row)),
            !.rows = Append(@, row)]

\* r.Formatted(): the closing bracket is written when conf.QParams.Format is
\* JSON, whatever the format of r is
FormattedOf(r) ==
  [r EXCEPT !.out = IF r.conf = FORMAT_JSON THEN @ \o <<NL, Char("]")>> ELSE @,
            !.done = TRUE]

\* --------------------------------------------- reading the output back
\* the classes of the regexps, the letters being "a" and the digits "1"
Letter == {"a"}
Digit == {"1"}
IsChar(x, S) == x.k = "c" /\ x.ch \in S
UserFirst(x) == IsChar(x, Letter \cup {"_"})
UserRest(x) == IsChar(x, Letter \cup Digit \cup {"_", "-"})
HostFirst(x) == IsChar(x, Letter \cup Digit)
HostRest(x) == IsChar(x, Letter \cup Digit \cup {"_", "."})
IsSpace(x) == x = SP
IsDigits(x) == IsChar(x, Digit) \/ x.k \in {"%d", "%05d", "Unix"}
IsStamp(x) == x.k = "RFC3339alt"
NotNL(x) == x # NL

\* the character classes by name
InClass(class, x) ==
  CASE class = "UserRest" -> UserRest(x)
    [] class = "HostRest" -> HostRest(x)
    [] class = "IsSpace" -> IsSpace(x)
    [] class = "IsDigits" -> IsDigits(x)
    [] class = "NotNL" -> NotNL(x)

\* the end of the longest run of elements of the class that starts at i;
\* i - 1 when there is none
RunEnd(str, i, class) ==
  CHOOSE j \in (i - 1)..Len(str) :
    /\ \A k \in i..j : InClass(class, str[k])
    /\ j = Len(str) \/ ~InClass(class, str[j + 1])

\* parseLine.FindStringSubmatch(line):
\* ^ *[0-9]+\*? *([0-9T:+-]{24,24}) *(.*)
MatchHistory(str) ==
  LET a == RunEnd(str, 1, "IsSpace")
      d == RunEnd(str, a + 1, "IsDigits")
      e == IF d < Len(str) /\ str[d + 1] = Char("*") THEN d + 1 ELSE d
      b == RunEnd(str, e + 1, "IsSpace")
  IN IF d > a /\ b < Len(str) /\ IsStamp(str[b + 1])
       THEN <<str, str[b + 1].n, SubSeq(str, RunEnd(str, b + 2, "IsSpace") + 1, Len(str))>>
       ELSE <<>>

\* parseExportLine.FindStringSubmatch(line):
\* ^([a-zA-Z_][a-zA-Z0-9_-]*) ([a-zA-Z0-9][a-zA-Z0-9_.]*) *([0-9T:+-]{24,24}) *(.*)
MatchExport(str) ==
  LET u == IF Len(str) >= 1 /\ UserFirst(str[1]) THEN RunEnd(str, 2, "UserRest") ELSE 0
      hasHost == u >= 1 /\ u + 2 <= Len(str) /\ str[u + 1] = SP /\ HostFirst(str[u + 2])
      h == RunEnd(str, u + 3, "HostRest")
      b == RunEnd(str, h + 1, "IsSpace")
  IN IF hasHost /\ b < Len(str) /\ IsStamp(str[b + 1])
       THEN <<str, SubSeq(str, 1, u), SubSeq(str, u + 2, h), str[b + 1].n,
              SubSeq(str, RunEnd(str, b + 2, "IsSpace") + 1, Len(str))>>
       ELSE <<>>

\* the line as the two regexps of AddFromBuffer see it, parseLine first
TextLine(str) ==
  IF Len(str) = 0 THEN EmptyLine
  ELSE IF Len(MatchHistory(str)) = 3
    THEN Line("history", 0, 0, MatchHistory(str)[2], MatchHistory(str)[3])
  ELSE IF Len(MatchExport(str)) = 5
    THEN Line("export", MatchExport(str)[2], MatchExport(str)[3], MatchExport(str)[4],
              MatchExport(str)[5])
  ELSE JunkLine

\* the pieces r.ReadString('\n') cuts the input into, without their newline
RECURSIVE SplitLines(_)
SplitLines(str) ==
  IF Len(str) = 0 THEN <<>>
  ELSE LET e == RunEnd(str, 1, "NotNL")
       IN <<SubSeq(str, 1, e)>> \o SplitLines(SubSeq(str, e + 2, Len(str)))

\* the input as a batch of lines
ReadBatch(str) ==
  [lines |-> [i \in 1..Len(SplitLines(str)) |-> TextLine(SplitLines(str)[i])],
   term |-> Len(str) = 0 \/ str[Len(str)] = NL]

\* fmt.Println(string(res)): the result and a newline
Println(res) == res \o <<NL>>

\* a Result of any format, with any format in conf.QParams, and an empty
\* store opened by the instance the output is piped to
RenderInit ==
  /\ render \in {ResultNew(f, c) : f \in Formats, c \in Formats}
  /\ history = {}
  /\ last = Call("New")
  /\ delNotLast = {}
  /\ schema = initDB
  /\ flags = NoFlags
  /\ net = NoNet

AddRow ==
  /\ ~render.done
  /\ Len(render.rows) < MaxRendered
  /\ \E row \in RenderRows : render' = AddRowTo(render, row)
  /\ UNCHANGED <<history, last, delNotLast, schema, flags, net>>

Formatted ==
  /\ ~render.done
  /\ render' = FormattedOf(render)
  /\ UNCHANGED <<history, last, delNotLast, schema, flags, net>>

\* the printed result of format export is the standard input of another
\* instance, which runs AddFromBuffer on its empty store
RestoreExport ==
  /\ Opened
  /\ render.done
  /\ render.format = FORMAT_EXPORT
  /\ \E u \in RUsers, h \in RHosts :
    LET b == ReadBatch(Println(render.out))
        st == RunAddFromBuffer(history, b, u, h)
    IN Stored(st.tbl, [Call("AddFromBuffer") EXCEPT !.batch = b, !.user = u, !.host = h,
                          !.status = st.status, !.total = st.total,
                          !.failed = st.failed])

RenderNext == AddRow \/ Formatted \/ RestoreExport

SpecRender == RenderInit /\ [][RenderNext]_vars

\* ================================================================ claims
\* what the claims say about the last call, in the terms of its input
Ingested == last.op = "AddFromBuffer"
TheLines == last.batch.lines
ReadLines == 1..NumReads(last.batch)
AllLines == 1..Len(TheLines)
Shaped(l) == l.shape = "history" \/ l.shape = "export"
UserOf(l) == IF l.shape = "history" THEN last.user ELSE l.user
HostOf(l) == IF l.shape = "history" THEN last.host ELSE l.host
HasKey(tbl, u, c, t) == \E r \in tbl : r.user = u /\ r.command = c /\ r.datetime = t
BadTimeAt(i) == Shaped(TheLines[i]) /\ TheLines[i].ts = BadStamp
AcceptedAt(i) == Shaped(TheLines[i]) /\ TheLines[i].ts # BadStamp
UnknownAt(i) == ~Shaped(TheLines[i])
SameRecord(i, j) ==
  /\ UserOf(TheLines[i]) = UserOf(TheLines[j])
  /\ TheLines[i].cmd = TheLines[j].cmd
  /\ TheLines[i].ts = TheLines[j].ts
DuplicateAt(i) ==
  /\ AcceptedAt(i)
  /\ \/ HasKey(last.pre, UserOf(TheLines[i]), TheLines[i].cmd, TheLines[i].ts)
     \/ \E j \in 1..(i - 1) : AcceptedAt(j) /\ SameRecord(i, j)
HistoryAfterExport ==
  \E i, j \in ReadLines : i < j /\ TheLines[i].shape = "export" /\ TheLines[j].shape = "history"

\* C1: no two rows of the table have the same (user, command, datetime); an
\* AddRecord of a record that is already stored returns no error and leaves
\* the table as it was, and an AddFromBuffer returns an error only for a
\* timestamp it cannot parse, never for a duplicate.
UniqueNaturalKey ==
  /\ \A r1, r2 \in history :
       (r1.user = r2.user /\ r1.command = r2.command /\ r1.datetime = r2.datetime)
         => r1 = r2
  /\ (last.op = "AddRecord" /\ HasKey(last.pre, last.user, last.command, last.time))
       => (last.status = "ok" /\ history = last.pre)
  /\ (Ingested /\ last.status = "error") => \E i \in ReadLines : BadTimeAt(i)

DuplicateAbsorbed ==
  /\ last.op = "AddRecord"
  /\ HasKey(last.pre, last.user, last.command, last.time)
  /\ \E r \in last.pre : r.user = last.user /\ r.command = last.command /\ r.datetime # last.time

\* C2: ingesting the batch of the last AddFromBuffer once more, with the same
\* user and host, leaves the table as the first run left it; when the first
\* run returned its summary the second returns one too, with the same total
\* and every line failed.
IngestIdempotent ==
  Ingested =>
    LET again == RunAddFromBuffer(history, last.batch, last.user, last.host)
    IN /\ again.tbl = history
       /\ again.status = last.status
       /\ last.status = "ok" => (again.total = last.total /\ again.failed = again.total)

IngestedNewRows ==
  /\ Ingested /\ last.status = "ok"
  /\ Cardinality(history) >= Cardinality(last.pre) + 2
  /\ last.pre # {}

BadTimeIsFatal ==
  (Ingested /\ \E i \in AllLines : BadTimeAt(i)) =>
    (last.status = "error" /\ history = last.pre)

ShapePerLine ==
  Ingested =>
    /\ last.status # "panic"
    /\ last.status = "ok" =>
         \A i \in ReadLines :
           AcceptedAt(i) =>
             \E r \in history :
               /\ r.user = UserOf(TheLines[i])
               /\ r.command = TheLines[i].cmd
               /\ r.datetime = TheLines[i].ts
               /\ ~DuplicateAt(i) => r.host = HostOf(TheLines[i])

RowidStable ==
  [][/\ \A r \in history :
          \/ last'.op = "Delete" /\ r.rowid \in last'.rows
          \/ /\ r \in history'
             /\ SelectCommand(history', r.rowid) = [err |-> "nil", res |-> <<r.command>>]
     /\ \A r1, r2 \in history' : r1.rowid = r2.rowid => r1 = r2]_vars

InsertedBesideGap ==
  /\ last.op \in {"AddRecord", "AddFromBuffer"}
  /\ last.pre # {} /\ last.pre \subseteq history /\ history # last.pre
  /\ \E id \in 1..MaxRowid : id \notin Rowids(last.pre) /\ \E r \in last.pre : r.rowid > id

MatchedByLast ==
  {r \in history : /\ last.user \in {Wild, r.user}
                    /\ last.host \in {Wild, r.host}
                    /\ last.command \in {Wild, r.command}}
CommandsMatched == {r.command : r \in MatchedByLast}
TopKRowsSound ==
  /\ \A i, j \in 1..Len(last.res) : i # j => last.res[i].command # last.res[j].command
  /\ \A i \in 1..Len(last.res) :
       /\ last.res[i].command \in CommandsMatched
       /\ last.res[i].count =
            Cardinality({r \in MatchedByLast : r.command = last.res[i].command})
  /\ \A i \in 1..(Len(last.res) - 1) : last.res[i].count >= last.res[i + 1].count

\* C10 as stated: for every integer kappa TopK returns at most kappa rows,
\* each a distinct command with the number of matching rows that have it,
\* counts non-increasing.
TopKAtMostKappa ==
  last.op = "TopK" => (Len(last.res) <= last.kappa /\ TopKRowsSound)

\* C10 amended: for every kappa >= 0 TopK returns at most kappa rows, for a
\* negative kappa it returns one row for every matching command; in both
\* cases each row is a distinct command with the number of matching rows
\* that have it, counts non-increasing.
TopKAtMostNaturalKappa ==
  last.op = "TopK" =>
    /\ last.kappa >= 0 => Len(last.res) <= last.kappa
    /\ last.kappa < 0 => Len(last.res) = Cardinality(CommandsMatched)
    /\ TopKRowsSound

TopKCutShort ==
  /\ last.op = "TopK"
  /\ last.kappa = 1 /\ Len(last.res) = 1
  /\ Cardinality(CommandsMatched) = 2
  /\ last.res[1].count = 2

\* the rows of the table the last query ran on, by rowid, and the returned
\* rows' commands as the table has them
PreRow(id) == CHOOSE r \in last.pre : r.rowid = id
ResIds == {last.res[i].rowid : i \in 1..Len(last.res)}
GroupOf(c) == {r \in MatchedByLast : r.command = c}
LatestOf(c) == SetMax({r.datetime : r \in GroupOf(c)})
EarliestOf(c) == -SetMax({-r.datetime : r \in GroupOf(c)})
OneRowPerCommand ==
  /\ \A i, j \in 1..Len(last.res) : i # j => last.res[i].rowid # last.res[j].rowid
  /\ ResIds \subseteq Rowids(MatchedByLast)
  /\ \A c \in CommandsMatched :
       Cardinality({id \in ResIds : PreRow(id).command = c}) = 1

\* C11: LastK with unique set and k >= 0 returns at most k rows of pairwise
\* distinct commands in ascending order of timestamp; each returned row is
\* the most recent matching row of its command, and the returned commands
\* are the k whose most recent rows are the latest.
LastKUniqueMostRecent ==
  (last.op = "LastK" /\ last.unique /\ last.kappa >= 0) =>
    /\ Len(last.res) <= last.kappa
    /\ \A i, j \in 1..Len(last.res) : i # j => last.res[i].command # last.res[j].command
    /\ \A i \in 1..(Len(last.res) - 1) : last.res[i].datetime <= last.res[i + 1].datetime
    /\ \A i \in 1..Len(last.res) :
         /\ last.res[i] \in MatchedByLast
         /\ last.res[i].datetime = LatestOf(last.res[i].command)
    /\ Len(last.res) = Limit(last.kappa, Cardinality(CommandsMatched))
    /\ \A c \in CommandsMatched :
         (\A i \in 1..Len(last.res) : last.res[i].command # c) =>
           \A i \in 1..Len(last.res) : LatestOf(c) <= LatestOf(last.res[i].command)

SearchUniqueKeepsLatest ==
  (last.op = "DefaultQuery" /\ last.unique) =>
    /\ OneRowPerCommand
    /\ \A id \in ResIds : PreRow(id).datetime = LatestOf(PreRow(id).command)

\* C14 as stated: the report of Demo gives the number of rows, of distinct
\* commands, of distinct users and of distinct hosts of the table, then the
\* result of TopK with kappa 15 and of LastK with kappa 10 for the filter of
\* the request.
DemoFilter(k) ==
  [User |-> last.user, Host |-> last.host, Command |-> last.command,
   Kappa |-> k, Unique |-> last.unique]
DemoSections ==
  /\ last.res.numLines = Cardinality(last.pre)
  /\ last.res.numUniqueLines = Cardinality({r.command : r \in last.pre})
  /\ last.res.numHosts = Cardinality({r.host : r \in last.pre})
  /\ last.res.top \in TopKRows(last.pre, DemoFilter(15))
  /\ last.res.lastk \in LastKRows(last.pre, DemoFilter(10))
DemoCountsUsers ==
  last.op = "Demo" =>
    /\ DemoSections
    /\ last.res.numUsers = Cardinality({r.user : r \in last.pre})

\* C14 amended: the third number of the report is the number of distinct
\* (user, host) pairs of the table; the rest is as stated.
DemoCountsUserHostPairs ==
  last.op = "Demo" =>
    /\ DemoSections
    /\ last.res.numUsers = Cardinality({<<r.user, r.host>> : r \in last.pre})

DemoUserOnTwoHosts ==
  /\ last.op = "Demo"
  /\ last.res.numUsers = 2
  /\ Cardinality({r.user : r \in last.pre}) = 1
  /\ last.res.numHosts = 2

\* C15: New on an existing file whose version is newer than VERSION, or
\* that migrate cannot bring to VERSION, returns an error and no handle and
\* leaves the file as it was; whenever New returns a handle, the version in
\* table admin is VERSION.
FileBefore == last.res[1]
HandleGiven == last.res[2] # "Database{}"
CannotMigrate(f) ==
  \/ f.version \notin {"1", VERSION}
  \/ f.version = "1" /\ \E i, j \in 1..Len(f.connlog) : i < j /\ f.connlog[i] = f.connlog[j]
OpenFailsClosed ==
  last.op = "NewOnFile" =>
    /\ (FileBefore # NoFile /\ CannotMigrate(FileBefore)) =>
         /\ last.status = "error"
         /\ ~HandleGiven
         /\ schema = FileBefore
         /\ history = last.pre
    /\ (last.status = "ok" \/ HandleGiven) => schema.version = VERSION

OpenRefusedNewer ==
  /\ last.op = "NewOnFile"
  /\ FileBefore.version = NewerVersion
  /\ last.status = "error"
  /\ history # {}
  /\ FileBefore.connlog # <<>>

\* the Content-window query in the terms of its input: the rows the filter
\* matches in scan order, the rows of the scope, the windows and the blocks
IsWindowQuery == last.op = "ContentWindow"
TheMatches == ByRowid(MatchedByLast)
TheScope == {r \in history : last.user \in {Wild, r.user} /\ last.host \in {Wild, r.host}}
TheWindows == last.res.windows
TheBlocks == last.res.blocks
IdsOf(w) == {w[p] : p \in 1..Len(w)}
Occurrences(id) ==
  {<<b, p>> \in (1..Len(TheBlocks)) \X (1..WMaxRows) :
     p <= Len(TheBlocks[b]) /\ TheBlocks[b][p] = id}

\* C16: with before = 0 and after = 0 the Content-window query returns
\* exactly the rows the Search filter matches: one window for every match,
\* holding only the rowid of the matching row, and no two windows merged.
ZeroContextIsSearch ==
  (IsWindowQuery /\ last.before = 0 /\ last.after = 0) =>
    /\ Len(TheWindows) = Len(TheMatches)
    /\ \A i \in 1..Len(TheWindows) : TheWindows[i] = <<TheMatches[i].rowid>>
    /\ TheBlocks = TheWindows

\* C17: two matches whose windows share a rowid are rendered in the same
\* block, a chain of windows each overlapping the next becomes one block,
\* windows that share no rowid stay in separate blocks, and every rowid of a
\* window appears exactly once in the output.
Overlap(i, j) == IdsOf(TheWindows[i]) \cap IdsOf(TheWindows[j]) # {}
OverlapStep(S) == S \cup {j \in 1..Len(TheWindows) : \E i \in S : Overlap(i, j)}
RECURSIVE OverlapChain(_)
OverlapChain(S) == IF OverlapStep(S) = S THEN S ELSE OverlapChain(OverlapStep(S))
SameBlock(i, j) ==
  \E b \in 1..Len(TheBlocks) :
    IdsOf(TheWindows[i]) \cup IdsOf(TheWindows[j]) \subseteq IdsOf(TheBlocks[b])
OverlapsMerged ==
  IsWindowQuery =>
    /\ \A i, j \in 1..Len(TheWindows) : SameBlock(i, j) <=> j \in OverlapChain({i})
    /\ \A i \in 1..Len(TheWindows) : \A id \in IdsOf(TheWindows[i]) :
         Cardinality(Occurrences(id)) = 1

\* C18: the window of a match holds the matching row, before it the
\* min(before, number of earlier rows of the scope) rows next before it and
\* after it the min(after, number of later rows of the scope) rows next
\* after it, in ascending order of timestamp.
ScopeRow(id) == CHOOSE r \in TheScope : r.rowid = id
EarlierThan(m) == {r \in TheScope : r.datetime < m.datetime}
LaterThan(m) == {r \in TheScope : r.datetime > m.datetime}
WindowAround(w, m) ==
  \E p \in 1..Len(w) :
    /\ w[p] = m.rowid
    /\ p - 1 = Limit(last.before, Cardinality(EarlierThan(m)))
    /\ Len(w) - p = Limit(last.after, Cardinality(LaterThan(m)))
    /\ IdsOf(w) \subseteq Rowids(TheScope)
    /\ \A q \in 1..(Len(w) - 1) : ScopeRow(w[q]).datetime <= ScopeRow(w[q + 1]).datetime
    /\ \A q \in 1..(p - 1) :
         /\ ScopeRow(w[q]) \in EarlierThan(m)
         /\ \A r \in EarlierThan(m) :
              r.rowid \notin IdsOf(w) => r.datetime <= ScopeRow(w[q]).datetime
    /\ \A q \in (p + 1)..Len(w) :
         /\ ScopeRow(w[q]) \in LaterThan(m)
         /\ \A r \in LaterThan(m) :
              r.rowid \notin IdsOf(w) => r.datetime >= ScopeRow(w[q]).datetime
WindowHoldsMatch ==
  IsWindowQuery =>
    /\ Len(TheWindows) = Len(TheMatches)
    /\ \A i \in 1..Len(TheWindows) : WindowAround(TheWindows[i], TheMatches[i])

\* C19: for every format and every sequence of AddRow calls on a Result of
\* New(format), the formatted output is the entries with a separator between
\* every two of them and none before the first or after the last; for JSON
\* it is an opening bracket, the records separated by commas and a closing
\* bracket, for any number of rows.
RECURSIVE Joined(_, _)
Joined(entries, sep) ==
  IF Len(entries) = 0 THEN <<>>
  ELSE IF Len(entries) = 1 THEN entries[1]
  ELSE entries[1] \o sep \o Joined(Tail(entries), sep)
SeparatorsOnlyBetween ==
  render.done =>
    render.out =
      IF render.format = FORMAT_JSON
        THEN <<Char("["), NL>> \o Joined(render.entries, <<Char(","), NL>>)
               \o <<NL, Char("]")>>
        ELSE Joined(render.entries, <<NL>>)

\* C20: the rows of a store rendered in format export and read by
\* AddFromBuffer into an empty store, with any default user and host, give
\* the same set of (user, host, command, timestamp) and no failed line.
Records(rows) == {<<r.user, r.host, r.command, r.datetime>> : r \in rows}
RenderedRows == {render.rows[i] : i \in 1..Len(render.rows)}
RenderedFromStore ==
  \A i, j \in 1..Len(render.rows) :
    i # j => /\ render.rows[i].rowid # render.rows[j].rowid
             /\ ~SameKey(render.rows[i], render.rows[j].user, render.rows[j].command,
                         render.rows[j].datetime)
ExportRoundTrip ==
  (last.op = "AddFromBuffer" /\ render.done /\ RenderedFromStore) =>
    /\ last.status = "ok"
    /\ last.failed = 0
    /\ Records(history) = Records(RenderedRows)


\* ------------------------------------------------------------- parseRange
\* The argument of -del is text: a sequence of characters.  RangeChars are
\* the characters an argument is made of here, MaxArgLen its longest length
\* and IntBits the width of Go's int.
MaxArgLen == 5
IntBits == 5
RangeChars == {"0", "1", "3", "-", ",", "f"}
IntMax == 2^(IntBits - 1) - 1

RangeArgs == UNION {[1..n -> RangeChars] : n \in 0..MaxArgLen}

DigitValue(c) == CASE c = "0" -> 0 [] c = "1" -> 1 [] c = "3" -> 3 [] OTHER -> -1

RECURSIVE SplitAt(_, _, _)
\* strings.Split(s, sep) for a separator of one character: cur is the piece
\* being read
SplitAt(s, sep, cur) ==
  IF s = <<>> THEN <<cur>>
  ELSE IF Head(s) = sep THEN <<cur>> \o SplitAt(Tail(s), sep, <<>>)
  ELSE SplitAt(Tail(s), sep, Append(cur, Head(s)))

StringsSplit(s, sep) == SplitAt(s, sep, <<>>)

\* regexp ^[0-9]+$
single(v) == v # <<>> /\ \A i \in 1..Len(v) : DigitValue(v[i]) >= 0

\* regexp ^[0-9]+-[0-9]+$
space(v) ==
  \E i \in 1..Len(v) :
    /\ v[i] = "-"
    /\ single(SubSeq(v, 1, i - 1))
    /\ single(SubSeq(v, i + 1, Len(v)))

RECURSIVE DecimalValue(_, _)
\* the number a string of digits writes, read from the left
DecimalValue(v, acc) ==
  IF v = <<>> THEN acc ELSE DecimalValue(Tail(v), 10 * acc + DigitValue(Head(v)))

\* strconv.Atoi on a string of digits: a value that does not fit int gives
\* the largest int and the error ErrRange
Atoi(v) ==
  LET n == DecimalValue(v, 0)
  IN IF n > IntMax THEN [val |-> IntMax, err |-> "ErrRange"] ELSE [val |-> n, err |-> "nil"]

RECURSIVE Upto(_, _)
\* the numbers the loop for i := b1; i <= b2; i++ appends
Upto(b1, b2) == IF b1 > b2 THEN <<>> ELSE <<b1>> \o Upto(b1 + 1, b2)

\* the locals of parseRange in its loop over args
RangeState == [nums |-> <<>>, errs |-> <<"nil", "nil">>, status |-> "loop"]

FirstErr(errs) == IF errs[1] # "nil" THEN errs[1] ELSE errs[2]

\* the loop over errs that ends the body of the loop over args
CheckErrs(st) ==
  IF FirstErr(st.errs) # "nil" THEN [st EXCEPT !.status = "error"] ELSE st

\* the range branch: equal bounds append one number and continue, which
\* skips the check of errs; with b2 the largest int the condition i <= b2
\* never fails and the loop appends until memory runs out
RangeToken(st, v) ==
  LET bounds == StringsSplit(v, "-")
      a1 == Atoi(bounds[1])
      a2 == Atoi(bounds[2])
      st1 == [st EXCEPT !.errs = <<a1.err, a2.err>>]
      b1 == IF a1.val > a2.val THEN a2.val ELSE a1.val
      b2 == IF a1.val > a2.val THEN a1.val ELSE a2.val
  IN IF a1.val = a2.val THEN [st1 EXCEPT !.nums = Append(@, a1.val)]
     ELSE IF b2 = IntMax THEN [st1 EXCEPT !.status = "out of memory"]
     ELSE CheckErrs([st1 EXCEPT !.nums = @ \o Upto(b1, b2)])

\* the body of the loop over args for one token
RangeStep(st, v) ==
  IF single(v)
    THEN LET a == Atoi(v)
         IN CheckErrs([st EXCEPT !.nums = Append(@, a.val), !.errs[1] = a.err])
  ELSE IF space(v) THEN RangeToken(st, v)
  ELSE CheckErrs([st EXCEPT !.errs[1] = "bad number"])

RECURSIVE RangeLoop(_, _)
RangeLoop(st, args) ==
  IF st.status # "loop" \/ args = <<>> THEN st
  ELSE RangeLoop(RangeStep(st, Head(args)), Tail(args))

RECURSIVE SortInts(_)
\* sort.Ints: the same numbers in ascending order
SortInts(nums) ==
  IF nums = <<>> THEN <<>>
  ELSE LET m == CHOOSE i \in 1..Len(nums) : \A j \in 1..Len(nums) : nums[i] <= nums[j]
       IN <<nums[m]>> \o SortInts(SubSeq(nums, 1, m - 1) \o SubSeq(nums, m + 1, Len(nums)))

RECURSIVE Uniq(_, _)
\* the loop over the sorted numbers with the map seen
Uniq(nums, seen) ==
  IF nums = <<>> THEN <<>>
  ELSE IF Head(nums) \in seen THEN Uniq(Tail(nums), seen)
  ELSE <<Head(nums)>> \o Uniq(Tail(nums), seen \cup {Head(nums)})

\* parseRange(arg): what it returns, or that it does not return
parseRange(arg) ==
  LET st == RangeLoop(RangeState, StringsSplit(arg, ","))
  IN CASE st.status = "error" -> [out |-> <<>>, err |-> FirstErr(st.errs), status |-> "returned"]
       [] st.status = "out of memory" -> [out |-> <<>>, err |-> "nil", status |-> "out of memory"]
       [] OTHER -> [out |-> Uniq(SortInts(st.nums), {}), err |-> "nil", status |-> "returned"]

\* a run is started with -del arg
RangeInit ==
  /\ flags \in {[op |-> "args", arg |-> a, out |-> <<>>, err |-> "nil", status |-> "none"] :
                  a \in RangeArgs}
  /\ history = {}
  /\ last = Call("none")
  /\ delNotLast = {}
  /\ schema = initDB
  /\ render = NoResult
  /\ net = NoNet

ParseRange ==
  /\ flags.op = "args"
  /\ LET r == parseRange(flags.arg)
     IN flags' = [flags EXCEPT !.op = "parseRange", !.out = r.out, !.err = r.err,
                                !.status = r.status]
  /\ UNCHANGED <<history, last, delNotLast, schema, render, net>>

RangeNext == ParseRange

SpecRange == RangeInit /\ [][RangeNext]_vars

\* the tokens of the argument of the last parseRange
RangeTokens == StringsSplit(flags.arg, ",")

\* the integers a token covers: the number itself, or every integer between
\* the two bounds of a range, whichever of them is written first
Covered(v) ==
  IF single(v) THEN {DecimalValue(v, 0)}
  ELSE LET b == StringsSplit(v, "-")
           x == DecimalValue(b[1], 0)
           y == DecimalValue(b[2], 0)
       IN IF x <= y THEN x..y ELSE y..x

WellFormed(v) == single(v) \/ space(v)

CoveredByList == UNION {Covered(RangeTokens[i]) : i \in 1..Len(RangeTokens)}

Ascending(s) == \A i \in 1..(Len(s) - 1) : s[i] < s[i + 1]

\* C21: for every comma-separated list of numbers and ranges parseRange
\* returns exactly the integers the list covers, strictly ascending and
\* without duplicates; if a token is neither a number nor a range it returns
\* an error and an empty list.
ParseRangeCoversList ==
  flags.op = "parseRange" =>
    IF \A i \in 1..Len(RangeTokens) : WellFormed(RangeTokens[i])
      THEN /\ flags.status = "returned"
           /\ flags.err = "nil"
           /\ Ascending(flags.out)
           /\ {flags.out[i] : i \in 1..Len(flags.out)} = CoveredByList
      ELSE /\ flags.status = "returned"
           /\ flags.err # "nil"
           /\ flags.out = <<>>

\* ------------------------------------------------------- the run mode
MODE_SERVER == "MODE_SERVER"
MODE_CLIENT == "MODE_CLIENT"
MODE_LOCAL == "MODE_LOCAL"
MODE_PRINT_VERSION == "MODE_PRINT_VERSION"
MODE_INIT == "MODE_INIT"
MODE_ERROR == "MODE_ERROR"
MODE_HELP == "MODE_HELP"

\* where the value of remote comes from: nowhere, the environment or the
\* configuration file, or the flag -r
Remotes == {"unset", "env", "flag"}

\* the configuration file: readable or absent, not JSON, not writable
ConfFiles == {"ok", "unparsable", "unwritable"}

\* the flag variables after setParseFlags and parseCustomFlags, the two
\* names ("" or "test") and the configuration file of the run
CommandLines ==
  [helpSet : BOOLEAN, setupSet : BOOLEAN, versionSet : BOOLEAN, serverSet : BOOLEAN,
   remote : Remotes, localSet : BOOLEAN, topkSet : BOOLEAN, lastkSet : BOOLEAN,
   uniqueSet : BOOLEAN, usersSet : BOOLEAN, rowSet : BOOLEAN, querySet : BOOLEAN,
   stdinSet : BOOLEAN, writeconfSet : BOOLEAN, user : {"", "test"}, host : {"", "test"},
   confFile : ConfFiles]

\* the switch of parse that determines the run mode: the first case that is
\* true, in the order they are written
ModeOfFlags(f) ==
  CASE f.setupSet -> MODE_INIT
    [] f.versionSet -> MODE_PRINT_VERSION
    [] f.serverSet -> MODE_SERVER
    [] f.remote # "unset" /\ ~f.localSet -> MODE_CLIENT
    [] OTHER -> MODE_LOCAL

\* setOpAndQParams: the first case of its switch; OP_IMPORT leaves the query
\* type as it was, empty
QueryTypeOfFlags(f) ==
  CASE f.topkSet -> "topk"
    [] f.lastkSet -> "lastk"
    [] f.usersSet -> "users"
    [] f.querySet -> "query"
    [] f.rowSet -> "row"
    [] f.stdinSet -> ""
    [] OTHER -> "demo"

\* checkFlagCombination
checkFlagCombination(f, mode) ==
  CASE mode = MODE_SERVER /\ f.remote = "flag" -> "server and client"
    [] f.lastkSet /\ f.topkSet -> "-lastk and -topk"
    [] f.topkSet /\ f.uniqueSet -> "-topk and -unique"
    [] f.rowSet /\ (f.lastkSet \/ f.topkSet) -> "-rows and one of -lastk, -topk"
    [] f.usersSet /\ (f.lastkSet \/ f.topkSet \/ f.querySet \/ f.rowSet) ->
         "-users with other type of query"
    [] f.rowSet /\ f.querySet -> "-row combined with query"
    [] mode = MODE_SERVER /\ QueryTypeOfFlags(f) # "demo" -> "server mode and other functions"
    [] OTHER -> "nil"

\* parse(): the run mode it leaves in Mode and the error it returns
parse(f) ==
  IF f.confFile = "unparsable" THEN [Mode |-> "", err |-> "Could not parse configuration file"]
  ELSE IF f.helpSet THEN [Mode |-> MODE_HELP, err |-> "nil"]
  ELSE
    LET mode == ModeOfFlags(f)
        comb == checkFlagCombination(f, mode)
    IN CASE comb # "nil" -> [Mode |-> mode, err |-> comb]
         [] f.user = "" -> [Mode |-> mode, err |-> "no username"]
         [] f.host = "" -> [Mode |-> mode, err |-> "no hostname"]
         [] (f.writeconfSet \/ f.setupSet) /\ f.confFile = "unwritable" ->
              [Mode |-> mode, err |-> "write configuration file"]
         [] OTHER -> [Mode |-> mode, err |-> "nil"]

\* init() of the package: an error of parse becomes the run mode MODE_ERROR
PackageInit(f) ==
  LET p == parse(f)
  IN IF p.err # "nil" THEN [Mode |-> MODE_ERROR, Error |-> p.err]
     ELSE [Mode |-> p.Mode, Error |-> "nil"]

\* the program is started with a command line
ParseInit ==
  /\ flags \in {[op |-> "args", line |-> f, Mode |-> "", Error |-> "nil"] : f \in CommandLines}
  /\ history = {}
  /\ last = Call("none")
  /\ delNotLast = {}
  /\ schema = initDB
  /\ render = NoResult
  /\ net = NoNet

Parse ==
  /\ flags.op = "args"
  /\ LET r == PackageInit(flags.line)
     IN flags' = [flags EXCEPT !.op = "parse", !.Mode = r.Mode, !.Error = r.Error]
  /\ UNCHANGED <<history, last, delNotLast, schema, render, net>>

ParseNext == Parse

SpecParse == ParseInit /\ [][ParseNext]_vars

\* the run modes a command line asks for
Asked(f) ==
  {m \in {MODE_PRINT_VERSION, MODE_INIT, MODE_SERVER, MODE_CLIENT, MODE_LOCAL} :
     CASE m = MODE_PRINT_VERSION -> f.versionSet
       [] m = MODE_INIT -> f.setupSet
       [] m = MODE_SERVER -> f.serverSet
       [] m = MODE_CLIENT -> f.remote # "unset" /\ ~f.localSet
       [] OTHER -> TRUE}

\* PRINT_VERSION > INIT > SERVER > CLIENT > LOCAL
Precedence(m) ==
  CASE m = MODE_PRINT_VERSION -> 5
    [] m = MODE_INIT -> 4
    [] m = MODE_SERVER -> 3
    [] m = MODE_CLIENT -> 2
    [] OTHER -> 1

\* C22: when several run-mode flags are set together the run mode selected
\* is the one of highest precedence among those asked for, in the order
\* PRINT_VERSION > INIT > SERVER > CLIENT > LOCAL (stated for the runs whose
\* command line is accepted and does not ask for help).
ModeFollowsPrecedence ==
  (flags.op = "parse" /\ flags.Error = "nil" /\ ~flags.line.helpSet) =>
    /\ flags.Mode \in Asked(flags.line)
    /\ \A m \in Asked(flags.line) : Precedence(m) <= Precedence(flags.Mode)

\* the step of the migration at which the system failed in the last New
FailedAt == last.kappa

\* the last New migrated a file of version 1
Migrated == last.op = "NewOnFile" /\ FileBefore # NoFile /\ FileBefore.version = "1"

\* C23: a migration is all-or-nothing.  If a step of it fails, New returns
\* an error and no handle and the file keeps its tables, its rows and its
\* version; if no step fails, the file has the tables of VERSION, the rows
\* of connlog it had, and the version VERSION, all at once.
MigrationAllOrNothing ==
  Migrated =>
    /\ last.status = "error" =>
         /\ ~HandleGiven
         /\ schema = FileBefore
         /\ history = last.pre
    /\ last.status = "ok" =>
         /\ schema = DBFile(VERSION, TablesV2, FileBefore.connlog)
         /\ history = last.pre
    /\ (FailedAt # 0 \/ CopyFails(FileBefore.connlog)) => last.status = "error"

\* the UPDATE of the version fails after every statement of the schema
\* change has run
MigrationFailedLate ==
  /\ Migrated
  /\ FailedAt \in DOMAIN MigrationSteps
  /\ MigrationSteps[FailedAt] = "UPDATE admin"
  /\ last.status = "error"
  /\ FileBefore.connlog # <<>>
  /\ schema.version = "1"

\* ------------------------------------------- concurrent AddFromBuffer calls
\* The server runs handleConn in a goroutine of its own for every
\* connection, and every history message is one AddFromBuffer call with its
\* own sql.Tx.  The calls are followed statement by statement: d.Begin(),
\* one turn of the loop for every line, tx.Commit().  The database file is
\* SQLite's: a transaction takes the RESERVED lock of the file with its
\* first INSERT and keeps it until it commits or rolls back.
INumConns == 2
IMaxBatchLen == 2
IMaxTime == 2

Conns == 1..INumConns

\* the lines a client sends: history lines and an export line of another
\* host, with a good or a bad timestamp, and a line of no known format
IngestLines ==
  {Line("history", 0, 0, t, 1) : t \in (1..IMaxTime) \cup {BadStamp}}
    \cup {Line("export", 1, 2, 1, 1), JunkLine}

IngestBatches ==
  {[lines |-> l, term |-> TRUE] : l \in UNION {[1..n -> IngestLines] : n \in 0..IMaxBatchLen}}

\* the user and the host of the message of connection i
MsgUser(i) == 1
MsgHostname(i) == i

\* a goroutine that has not received its message yet
Idle ==
  [pc |-> "idle", batch |-> NoBatch, pos |-> 0, st |-> LoopState({}), tx |-> "none",
   ret |-> "none", added |-> {}]

\* the outcomes of a call of the database that the caller does not decide:
\* it works, or the system fails it
Outcomes == {"ok", "fails"}

\* how r.ReadString ends: with a line or io.EOF, or with another error
ReadOutcomes == {"ok", "read error"}

\* how stmt.Exec ends beside success and a primary key violation: an
\* sqlite3.Error of another code, or an error that is no sqlite3.Error
ExecOutcomes == {"ok", "sqlite3.Error", "other error"}

\* no goroutine but i holds the RESERVED lock
LockFree(n, i) == n.lock \in {0, i}

\* the line the next turn of the loop of goroutine g reads
NextLine(g) == g.batch.lines[g.pos + 1]

\* the turn of the loop for line l gets as far as stmt.Exec
ReachesExec(st, l) ==
  LET hist == parseLine(l)
      isHist == Len(hist) = 3
      args == IF isHist THEN hist ELSE parseExportLine(l)
      lf == LineFormatAfter(st, isHist)
  IN /\ isHist \/ Len(args) = 5
     /\ lf < Len(args)
     /\ ParseTime(At(args, lf)).err = "nil"

\* the rows goroutine i sees: its own transaction's once it has written, the
\* file's before
View(n, i) == IF n.lock = i THEN n.g[i].st.tbl ELSE history

\* tx.Rollback(): the transaction is over and its lock is free
RolledBack(n, i) ==
  [n EXCEPT !.g[i].tx = "rolled back", !.lock = IF n.lock = i THEN 0 ELSE n.lock]

\* return "", err
Returned(n, i, what) == [n EXCEPT !.g[i].pc = "done", !.g[i].ret = what]

\* a panic in a goroutine that nothing recovers ends the process
Panicked(n, i) == [Returned(n, i, "panic") EXCEPT !.crashed = TRUE]

\* a read error that is not io.EOF: total++ and return, the transaction is
\* left as it is
OnReadError(n, i) ==
  Returned([n EXCEPT !.g[i].st.total = @ + 1, !.g[i].st.status = "error"], i, "error")

\* stmt.Exec fails with an sqlite3.Error that is no primary key violation
\* (the file is locked, the disk fails): tx.Rollback() and return
OnSqliteError(n, i) ==
  Returned(RolledBack([n EXCEPT !.g[i].st.total = @ + 1, !.g[i].st.status = "error"], i),
           i, "error")

\* stmt.Exec fails with an error that is no sqlite3.Error: return
OnOtherError(n, i) ==
  Returned([n EXCEPT !.g[i].st.total = @ + 1, !.g[i].st.status = "error"], i, "error")

\* one turn of the loop that nothing of the system fails
OnLine(n, i) ==
  LET g == n.g[i]
      l == NextLine(g)
      st == ProcessLine([g.st EXCEPT !.tbl = View(n, i)], l, MsgUser(i), MsgHostname(i),
                        history)
      n1 == [n EXCEPT !.g[i].st = st, !.g[i].pos = @ + 1,
                      !.lock = IF ReachesExec(g.st, l) THEN i ELSE n.lock]
  IN CASE st.status = "error" -> Returned(RolledBack(n1, i), i, "error")
       [] st.status = "panic" -> Panicked(n1, i)
       [] OTHER -> n1

\* tx.Commit() and the rest of the call: the rows of the transaction are the
\* file's, total--, the stats sentence is returned
OnCommit(n, i) ==
  LET st == Finish([n.g[i].st EXCEPT !.total = @ + 1, !.tbl = View(n, i)])
  IN Returned([n EXCEPT !.g[i].st = st, !.g[i].tx = "committed",
                        !.g[i].added = st.tbl \ history,
                        !.lock = IF n.lock = i THEN 0 ELSE n.lock], i, "summary")

\* tx.Commit() returns an error, which nothing reads: the engine has undone
\* the transaction, and the call goes on to its stats sentence
OnCommitError(n, i) ==
  LET st == Finish([n.g[i].st EXCEPT !.total = @ + 1, !.tbl = history])
  IN Returned([n EXCEPT !.g[i].st = st, !.g[i].tx = "commit failed",
                        !.lock = IF n.lock = i THEN 0 ELSE n.lock], i, "summary")

\* the server is up, its store is empty and no connection has sent anything
IngestInit ==
  /\ history = {}
  /\ last = Call("New")
  /\ delNotLast = {}
  /\ schema = initDB
  /\ render = NoResult
  /\ flags = NoFlags
  /\ net = [g |-> [i \in Conns |-> Idle], lock |-> 0, crashed |-> FALSE]

\* handleConn has its history message and AddFromBuffer begins: tx, _ :=
\* d.Begin(), and tx.Stmt on the nil transaction of a failed Begin panics
BeginTx(i) ==
  /\ ~net.crashed
  /\ net.g[i].pc = "idle"
  /\ \E b \in IngestBatches, o \in Outcomes :
       net' = IF o = "ok"
                THEN [net EXCEPT !.g[i].pc = "loop", !.g[i].batch = b, !.g[i].tx = "open"]
                ELSE Panicked([net EXCEPT !.g[i].batch = b], i)
  /\ UNCHANGED <<history, last, delNotLast, schema, render, flags>>

\* one turn of the loop of AddFromBuffer.  An INSERT of a transaction that
\* does not hold the lock while another one does waits for it, and fails
\* with SQLITE_BUSY when its patience runs out.
Turn(i) ==
  /\ ~net.crashed
  /\ net.g[i].pc = "loop"
  /\ net.g[i].pos < NumReads(net.g[i].batch)
  /\ \E r \in ReadOutcomes, e \in ExecOutcomes :
       net' = CASE r = "read error" -> OnReadError(net, i)
                [] ~ReachesExec(net.g[i].st, NextLine(net.g[i])) -> OnLine(net, i)
                [] ~LockFree(net, i) -> OnSqliteError(net, i)
                [] e = "sqlite3.Error" -> OnSqliteError(net, i)
                [] e = "other error" -> OnOtherError(net, i)
                [] OTHER -> OnLine(net, i)
  /\ UNCHANGED <<history, last, delNotLast, schema, render, flags>>

\* the read that finds the end of the input, and what follows the loop
EndOfInput(i) ==
  /\ ~net.crashed
  /\ net.g[i].pc = "loop"
  /\ net.g[i].pos = NumReads(net.g[i].batch)
  /\ \E r \in ReadOutcomes, c \in Outcomes :
       /\ net' = CASE r = "read error" -> OnReadError(net, i)
                   [] c = "fails" -> OnCommitError(net, i)
                   [] OTHER -> OnCommit(net, i)
       /\ history' = IF r = "ok" /\ c = "ok" THEN View(net, i) ELSE history
  /\ UNCHANGED <<last, delNotLast, schema, render, flags>>

IngestNext == \E i \in Conns : BeginTx(i) \/ Turn(i) \/ EndOfInput(i)

SpecIngest == IngestInit /\ [][IngestNext]_vars

\* the calls that have returned to handleConn
ReturnedCalls == {i \in Conns : net.g[i].pc = "done" /\ net.g[i].ret \in {"summary", "error"}}

\* C24: every return path of AddFromBuffer ends the transaction it began, by
\* commit or by rollback: after the call has returned, with its summary or
\* with an error, its transaction is not open, and a call that returned an
\* error has put no row into the table.
TxEndedOnReturn ==
  \A i \in ReturnedCalls :
    /\ net.g[i].tx \in {"committed", "rolled back"}
    /\ net.lock # i
    /\ net.g[i].ret = "error" => net.g[i].added = {}

\* the records of the message of connection i: the user, command and time of
\* every line that has one of the two formats and a timestamp that parses
RecordsOf(i) ==
  LET b == net.g[i].batch
  IN {<<IF b.lines[k].shape = "history" THEN MsgUser(i) ELSE b.lines[k].user,
        b.lines[k].cmd, b.lines[k].ts>> :
        k \in {k \in 1..NumReads(b) : /\ b.lines[k].shape \in {"history", "export"}
                                      /\ b.lines[k].ts # BadStamp}}

RowsOfRecord(k) == {r \in history : SameKey(r, k[1], k[2], k[3])}

\* C25: when two ingestion batches run concurrently, under every
\* interleaving no two rows have the same (user, command, datetime), a
\* record that is in both batches is stored once when both batches have
\* returned their summary and never twice, a batch that returns its summary
\* has all its records in the table, and a batch that returns an error has
\* put no row into it.
ConcurrentBatchesAtomic ==
  /\ \A r1, r2 \in history : SameKey(r1, r2.user, r2.command, r2.datetime) => r1 = r2
  /\ \A i \in Conns :
       /\ (net.g[i].pc = "done" /\ net.g[i].ret = "summary") =>
            \A k \in RecordsOf(i) : Cardinality(RowsOfRecord(k)) = 1
       /\ (net.g[i].pc = "done" /\ net.g[i].ret = "error") => net.g[i].added = {}

\* the calls that returned their summary and whose commit went through
CommittedCalls ==
  {i \in Conns : net.g[i].pc = "done" /\ net.g[i].ret = "summary" /\ net.g[i].tx = "committed"}

LinesOf(i) == net.g[i].batch.lines
Accepted(i) ==
  {k \in 1..NumReads(net.g[i].batch) :
     LinesOf(i)[k].shape \in {"history", "export"} /\ LinesOf(i)[k].ts # BadStamp}
Unknown(i) ==
  {k \in 1..NumReads(net.g[i].batch) : LinesOf(i)[k].shape \notin {"history", "export"}}

\* the record line k of the message of connection i submits
UserAt(i, k) == IF LinesOf(i)[k].shape = "history" THEN MsgUser(i) ELSE LinesOf(i)[k].user
HostAt(i, k) == IF LinesOf(i)[k].shape = "history" THEN MsgHostname(i) ELSE LinesOf(i)[k].host
KeyAt(i, k) == <<UserAt(i, k), LinesOf(i)[k].cmd, LinesOf(i)[k].ts>>

\* the first line of the message of connection i that submits the key of r
SubmitsKeyOf(i, k, r) == SameKey(r, UserAt(i, k), LinesOf(i)[k].cmd, LinesOf(i)[k].ts)
FirstWithKey(i, r) ==
  CHOOSE k \in Accepted(i) :
    /\ SubmitsKeyOf(i, k, r)
    /\ \A j \in Accepted(i) : SubmitsKeyOf(i, j, r) => k <= j

\* C28: the host is not part of the natural key.  Of the submitted records
\* with the same user, command and timestamp only the first is stored, with
\* its host, whatever the hosts of the later ones; every later one is
\* counted as failed, in the same batch or in another.
HostNotInKey ==
  \A i \in CommittedCalls :
    /\ \A k \in Accepted(i) : Cardinality(RowsOfRecord(KeyAt(i, k))) = 1
    /\ \A r \in net.g[i].added :
         /\ r \in history
         /\ \E k \in Accepted(i) : SubmitsKeyOf(i, k, r)
         /\ r.host = HostAt(i, FirstWithKey(i, r))
    /\ net.g[i].st.failed =
         Cardinality(Unknown(i)) + Cardinality(Accepted(i)) - Cardinality(net.g[i].added)

\* the two connections have submitted the same user, command and timestamp
\* from two hosts: the row is the first one's, the second is counted as failed
SecondHostCounted ==
  /\ CommittedCalls = Conns
  /\ \E r \in net.g[1].added :
       /\ r.host = MsgHostname(1)
       /\ \E k \in Accepted(2) : SubmitsKeyOf(2, k, r) /\ HostAt(2, k) # r.host
       /\ \A q \in history : SameKey(q, r.user, r.command, r.datetime) => q = r
  /\ net.g[2].st.failed >= 1
  /\ net.g[2].added = {}

\* the lines of the input that are not empty, the text after the last newline
\* included
NonEmptyLines == {i \in AllLines : TheLines[i].shape # "empty"}

\* C27: every line of the input, a last line without a newline included, is
\* parsed and is either inserted or counted as failed: when the call returns
\* its summary every line with a format and a timestamp has its record in the
\* table, every non-empty line is counted in total and every non-empty line
\* of no known format in failed.
EveryLineCounted ==
  (Ingested /\ last.status = "ok") =>
    /\ \A i \in AllLines :
         AcceptedAt(i) => HasKey(history, UserOf(TheLines[i]), TheLines[i].cmd, TheLines[i].ts)
    /\ last.total >= Cardinality(NonEmptyLines)
    /\ last.failed >= Cardinality({i \in NonEmptyLines : UnknownAt(i)})

\* ---------------------------------------------------------- the server
\* ServerMode: the loop that accepts connections, LogConn with the goroutine
\* of its reverse lookup, and handleConn in a goroutine of its own.
SMaxConns == 2
SNumIPs == 2
SNumNames == 2
SMaxBatchLen == 2
SMaxKappa == 1

IPs == 1..SNumIPs

\* the names net.LookupAddr may give for an address
Names == 1..SNumNames

\* message types
RESULT == "result"
HISTORY == "history"
STATS == "stats"
QUERY == "query"
LOGINFO == "info"

\* the history a client sends: lines of both formats with good and bad
\* timestamps
ServerLines ==
  {Line("history", 0, 0, 1, 1), Line("history", 0, 0, BadStamp, 1), Line("export", 1, 1, 1, 1)}

ServerBatches ==
  {[lines |-> l, term |-> TRUE] : l \in UNION {[1..n -> ServerLines] : n \in 0..SMaxBatchLen}}

\* the query types a message may carry: the query of one row, and a type
\* RunQuery does not know
QUERY_ROW == "row"
QUERY_UNKNOWN == "unknown"

\* Message: Type, Payload and QParams
Message(type, b, qtype, kappa) ==
  [Type |-> type, Payload |-> b, QType |-> qtype, Kappa |-> kappa]

NoMessage == Message("", NoBatch, "", 0)

Messages ==
  {Message(HISTORY, b, "", 0) : b \in ServerBatches}
    \cup {Message(QUERY, NoBatch, QUERY_ROW, k) : k \in 0..SMaxKappa}
    \cup {Message(QUERY, NoBatch, QUERY_UNKNOWN, 0), Message(STATS, NoBatch, "", 0)}

\* RunQuery: the switch on p.Type
RunQuery(tbl, m) ==
  IF m.QType = QUERY_ROW
    THEN SelectCommand(tbl, m.Kappa)
    ELSE [err |-> "Unknown query type.", res |-> <<>>]

\* the payload of a reply: the stats sentence, the text of an error, or the
\* bytes of a query result
Payload(kind, total, failed, text) ==
  [kind |-> kind, total |-> total, failed |-> failed, text |-> text]

NoPayload == Payload("empty", 0, 0, <<>>)

\* the goroutine of the reverse lookup of a connection
NoLookup == [pc |-> "none", miss |-> FALSE, tried |-> FALSE, addr |-> 0]

\* what LogConn returns: its named result err; the err that SplitHostPort
\* and Exec assign is the one declared by the if statement
LogConnReturn(logged) == "nil"

\* a connection the loop has accepted: ret is what LogConn returned for it
Conn(ip, logged) ==
  [ip |-> ip, logged |-> logged, ret |-> LogConnReturn(logged), pc |-> "receive",
   msg |-> NoMessage,
   decrypted |-> FALSE, replies |-> <<>>,
   look |-> IF logged THEN [NoLookup EXCEPT !.pc = "query"] ELSE NoLookup]

\* the rows of table rlookup with address ip
RlookupOf(rows, ip) == {r \in rows : r.ip = ip}

\* an insert into a table rlookup that has no key
RlookupInsertNoKey(rows, ip, name) ==
  [err |-> "nil", rows |-> rows \cup {[ip |-> ip, reverse |-> name]}]

\* INSERT INTO rlookup(ip, reverse) VALUES(?, ?) with ip TEXT PRIMARY KEY
RlookupInsert(rows, ip, name) ==
  IF RlookupOf(rows, ip) # {}
    THEN [err |-> "ErrConstraintPrimaryKey", rows |-> rows]
    ELSE [err |-> "nil", rows |-> rows \cup {[ip |-> ip, reverse |-> name]}]

\* the server has opened its store and listens
ServerInit ==
  /\ history = {}
  /\ last = Call("New")
  /\ delNotLast = {}
  /\ schema = initDB
  /\ render = NoResult
  /\ flags = NoFlags
  /\ net = [conns |-> <<>>, rlookup |-> {}, looked |-> {}, crashed |-> "no",
            acceptFailed |-> FALSE]

Running == net.crashed = "no"

\* one turn of the loop of ServerMode with an Accept that returns an error:
\* the error is logged, and conn.RemoteAddr() on the nil conn panics
AcceptError ==
  /\ Running
  /\ net' = [net EXCEPT !.acceptFailed = TRUE, !.crashed = "Accept"]
  /\ UNCHANGED <<history, last, delNotLast, schema, render, flags>>

\* one turn of the loop with a connection from address ip: LogConn inserts
\* the connection into connlog and, when that worked, starts the goroutine
\* of the reverse lookup; it returns its named result err, which nothing
\* has been assigned to; then go handleConn(conn)
Accept ==
  /\ Running
  /\ Len(net.conns) < SMaxConns
  /\ \E ip \in IPs, o \in Outcomes :
       /\ net' = [net EXCEPT !.conns = Append(@, Conn(ip, o = "ok"))]
       /\ schema' = IF o = "ok"
                      THEN [schema EXCEPT !.connlog = Append(@, Len(@) + 1)]
                      ELSE schema
  /\ UNCHANGED <<history, last, delNotLast, render, flags>>

\* the goroutine of LogConn: SELECT ip FROM rlookup WHERE ip LIKE ?; Scan
\* gives nil, sql.ErrNoRows, or another error, which is logged
LookupQuery(c) ==
  /\ Running
  /\ net.conns[c].look.pc = "query"
  /\ \E o \in Outcomes :
       net' = IF o = "ok" /\ RlookupOf(net.rlookup, net.conns[c].ip) = {}
                THEN [net EXCEPT !.conns[c].look.pc = "lookup", !.conns[c].look.miss = TRUE]
                ELSE [net EXCEPT !.conns[c].look.pc = "done"]
  /\ UNCHANGED <<history, last, delNotLast, schema, render, flags>>

\* net.LookupAddr(ip): it gives names, or it fails and the goroutine ends
LookupAddr(c) ==
  /\ Running
  /\ net.conns[c].look.pc = "lookup"
  /\ \/ \E name \in Names :
          net' = [net EXCEPT !.conns[c].look.pc = "insert", !.conns[c].look.addr = name,
                             !.conns[c].look.tried = TRUE,
                             !.looked = @ \cup {<<net.conns[c].ip, name>>}]
     \/ net' = [net EXCEPT !.conns[c].look.pc = "done", !.conns[c].look.tried = TRUE]
  /\ UNCHANGED <<history, last, delNotLast, schema, render, flags>>

\* the INSERT into rlookup; its error is assigned and never read
LookupInsert(c) ==
  /\ Running
  /\ net.conns[c].look.pc = "insert"
  /\ \E o \in Outcomes :
       LET ins == RlookupInsert(net.rlookup, net.conns[c].ip, net.conns[c].look.addr)
       IN net' = [net EXCEPT !.conns[c].look.pc = "done",
                             !.rlookup = IF o = "ok" THEN ins.rows ELSE @]
  /\ UNCHANGED <<history, last, delNotLast, schema, render, flags>>

\* handleConn: receiveDecrypt gives the message, or an error, which is
\* logged before the deferred conn.Close()
Receive(c) ==
  /\ Running
  /\ net.conns[c].pc = "receive"
  /\ \/ \E m \in Messages :
          net' = [net EXCEPT !.conns[c].pc = "handle", !.conns[c].msg = m,
                             !.conns[c].decrypted = TRUE]
     \/ net' = [net EXCEPT !.conns[c].pc = "closed"]
  /\ UNCHANGED <<history, last, delNotLast, schema, render, flags>>

\* the switch on msg.Type: what the message does to the table and the
\* payload of its reply
Handled(tbl, m) ==
  CASE m.Type = HISTORY ->
         LET st == RunAddFromBuffer(tbl, m.Payload, 1, 1)
         IN CASE st.status = "ok" ->
                   [tbl |-> st.tbl, panic |-> FALSE,
                    result |-> Payload("stats", st.total, st.failed, <<>>)]
              [] st.status = "error" ->
                   [tbl |-> st.tbl, panic |-> FALSE, result |-> Payload("error", 0, 0, <<>>)]
              [] OTHER -> [tbl |-> st.tbl, panic |-> TRUE, result |-> NoPayload]
    [] m.Type = QUERY ->
         LET q == RunQuery(tbl, m)
         IN IF q.err = "nil"
              THEN [tbl |-> tbl, panic |-> FALSE, result |-> Payload("rows", 0, 0, q.res)]
              ELSE [tbl |-> tbl, panic |-> FALSE, result |-> Payload("error", 0, 0, <<>>)]
    [] OTHER -> [tbl |-> tbl, panic |-> FALSE, result |-> NoPayload]

\* the type of the reply
ReplyType(m) == IF m.Type = HISTORY THEN LOGINFO ELSE RESULT

\* handleConn after the message: the switch, encryptDispatch of the reply
\* (sent tells whether it worked) and the deferred conn.Close(); a panic of
\* AddFromBuffer is recovered nowhere and ends the server
handleConn(c) ==
  /\ Running
  /\ net.conns[c].pc = "handle"
  /\ LET h == Handled(history, net.conns[c].msg)
     IN /\ history' = h.tbl
        /\ IF h.panic
             THEN net' = [net EXCEPT !.crashed = "AddFromBuffer"]
             ELSE \E sent \in BOOLEAN :
                    net' = [net EXCEPT
                              !.conns[c].pc = "closed",
                              !.conns[c].replies =
                                 Append(@, [Type |-> ReplyType(net.conns[c].msg),
                                            Payload |-> h.result, sent |-> sent])]
  /\ UNCHANGED <<last, delNotLast, schema, render, flags>>

ServerNext ==
  \/ AcceptError
  \/ Accept
  \/ \E c \in 1..SMaxConns :
       /\ c <= Len(net.conns)
       /\ LookupQuery(c) \/ LookupAddr(c) \/ LookupInsert(c) \/ Receive(c) \/ handleConn(c)

SpecServer == ServerInit /\ [][ServerNext]_vars

\* the connections the loop has accepted
Served == 1..Len(net.conns)
\* C30: after an Accept call has failed the server still runs
ServerSurvivesAcceptError == net.acceptFailed => Running

\* the reply handleConn has to give to message m on table tbl
RightReply(rep, m) ==
  CASE m.Type = HISTORY -> rep.Type = LOGINFO /\ rep.Payload.kind \in {"stats", "error"}
    [] m.Type = QUERY -> rep.Type = RESULT /\ rep.Payload.kind \in {"rows", "error"}
    [] OTHER -> TRUE

\* a connection is answered: one reply of the right type, and it is closed
Answered(c) ==
  /\ net.conns[c].pc = "closed"
  /\ Len(net.conns[c].replies) = 1
  /\ RightReply(net.conns[c].replies[1], net.conns[c].msg)

\* C29: a connection whose request was decrypted and that is not waiting
\* for its handler is answered by one reply of the right type and closed, a
\* connection whose request was not decrypted has no reply, and no request
\* stops the server
OneReplyPerRequest ==
  /\ net.crashed # "AddFromBuffer"
  /\ \A c \in Served :
       /\ (net.conns[c].decrypted /\ net.conns[c].pc # "handle") => Answered(c)
       /\ ~net.conns[c].decrypted => net.conns[c].replies = <<>>

\* the goroutines of LogConn for connection c have ended, or were not started
LogConnOver(c) == net.conns[c].look.pc \in {"none", "done"}

\* the cache has at most one entry per address, every entry is a name a
\* lookup gave for its address, and LogConn returned nil
CacheSound ==
  /\ \A ip \in IPs : Cardinality(RlookupOf(net.rlookup, ip)) <= 1
  /\ \A r \in net.rlookup : <<r.ip, r.reverse>> \in net.looked
  /\ \A c \in Served : net.conns[c].ret = "nil"

====
